---- MODULE Spec2Model ----
(***************************************************************************)
(* A model of the SUNET openstack-operator: the ConfigMap-backed registry  *)
(* of managed resources, the two leader-elected garbage-collection daemons,*)
(* the shared federation mapping and the per-CR reconcilers.               *)
(*                                                                         *)
(* The module holds several specifications over one set of variables; each *)
(* specification moves the variables of one subsystem and leaves the rest  *)
(* unchanged:                                                              *)
(*   SpecGC   the GC daemons, racing with create handlers and CR changes   *)
(***************************************************************************)
EXTENDS Integers, Sequences, FiniteSets, TLC

\* Python's None, for string-valued fields
None == "None"

(***************************************************************************)
(* Names.  Every name of the model is one of NameOrder, listed in the      *)
(* order Python's sorted() gives them; Rank is the position in that order. *)
(***************************************************************************)
NameOrder == <<"a", "b", "f">>

Rank(n) == CHOOSE i \in DOMAIN NameOrder : NameOrder[i] = n

\* sorted(xs)[0] of a non-empty set of names
SortedFirst(S) == CHOOSE n \in S : \A m \in S : Rank(n) <= Rank(m)

RECURSIVE SortedSeq(_)
\* sorted(S) as a sequence
SortedSeq(S) ==
    IF S = {} THEN <<>>
    ELSE LET n == SortedFirst(S) IN <<n>> \o SortedSeq(S \ {n})

\* Python dict as a function with a finite domain
EmptyDict == <<>>

DictPut(d, k, v) == [x \in (DOMAIN d) \cup {k} |-> IF x = k THEN v ELSE d[x]]

DictPop(d, k) == [x \in (DOMAIN d) \ {k} |-> d[x]]

(***************************************************************************)
(* Derived names (utils.py).  A name is a string; NameChars gives its      *)
(* characters, and sanitize_name is computed on the characters.            *)
(***************************************************************************)
NameChars ==
    [a |-> <<"a">>, b |-> <<"b">>, f |-> <<"f">>]
        @@ ("a.b" :> <<"a", ".", "b">>) @@ ("a-b" :> <<"a", "-", "b">>)

UpperCase == <<"A", "B", "C", "D", "E", "F", "G", "H", "I", "J", "K", "L", "M",
               "N", "O", "P", "Q", "R", "S", "T", "U", "V", "W", "X", "Y", "Z">>

LowerCase == <<"a", "b", "c", "d", "e", "f", "g", "h", "i", "j", "k", "l", "m",
               "n", "o", "p", "q", "r", "s", "t", "u", "v", "w", "x", "y", "z">>

Digits == {"0", "1", "2", "3", "4", "5", "6", "7", "8", "9"}

\* str.lower() on one character
Lower(ch) ==
    IF \E i \in DOMAIN UpperCase : UpperCase[i] = ch
    THEN LowerCase[CHOOSE i \in DOMAIN UpperCase : UpperCase[i] = ch]
    ELSE ch

\* name.replace(".", "-").replace("_", "-").lower()
ReplaceLower(cs) ==
    [i \in DOMAIN cs |-> IF cs[i] \in {".", "_"} THEN "-" ELSE Lower(cs[i])]

\* re.sub(r"[^a-z0-9-]", "", s)
IsSafeChar(ch) ==
    \/ \E i \in DOMAIN LowerCase : LowerCase[i] = ch
    \/ ch \in Digits
    \/ ch = "-"

RECURSIVE CollapseHyphens(_)
\* re.sub(r"-+", "-", s)
CollapseHyphens(cs) ==
    IF Len(cs) <= 1 THEN cs
    ELSE IF cs[1] = "-" /\ cs[2] = "-" THEN CollapseHyphens(Tail(cs))
    ELSE <<cs[1]>> \o CollapseHyphens(Tail(cs))

RECURSIVE StripLeft(_)
StripLeft(cs) ==
    IF cs # <<>> /\ cs[1] = "-" THEN StripLeft(Tail(cs)) ELSE cs

RECURSIVE StripRight(_)
StripRight(cs) ==
    IF cs # <<>> /\ cs[Len(cs)] = "-" THEN StripRight(SubSeq(cs, 1, Len(cs) - 1)) ELSE cs

\* s.strip("-")
StripHyphens(cs) == StripRight(StripLeft(cs))

\* sanitize_name on characters
SanitizeChars(cs) ==
    StripHyphens(CollapseHyphens(SelectSeq(ReplaceLower(cs), IsSafeChar)))

RECURSIVE Join(_)
\* the string of a sequence of characters
Join(cs) == IF cs = <<>> THEN "" ELSE cs[1] \o Join(Tail(cs))

sanitize_name(name) == Join(SanitizeChars(NameChars[name]))

\* f"{sanitize_name(project_name)}-users"
make_group_name(project_name) == sanitize_name(project_name) \o "-users"

(***************************************************************************)
(* The registry (resources/registry.py).  The ConfigMap holds one JSON     *)
(* blob per resource type under the key "<type>.json".  A blob is modelled *)
(* as what json.dumps(resources, sort_keys=True) writes: the entries of    *)
(* the dict as a sequence of <<name, info>> pairs in sorted key order.     *)
(***************************************************************************)
RESOURCE_TYPES ==
    {"domains", "flavors", "images", "provider_networks", "projects",
     "groups", "networks", "security_groups", "federation_mappings"}

\* key = f"{resource_type}.json": the key is modelled by the type itself
BlobKey(resource_type) == resource_type

\* json.dumps(resources, sort_keys=True)
JsonDumps(resources) ==
    LET ks == SortedSeq(DOMAIN resources)
    IN  [i \in DOMAIN ks |-> <<ks[i], resources[ks[i]]>>]

\* json.loads(blob)
JsonLoads(blob) ==
    [n \in {blob[i][1] : i \in DOMAIN blob} |->
        blob[CHOOSE i \in DOMAIN blob : blob[i][1] = n][2]]

\* the ConfigMap before its first use: it does not exist
NoConfigMap == [exists |-> FALSE, data |-> EmptyDict]

\* _get_configmap: the data of the ConfigMap, {} when it is missing (and then
\* the ConfigMap is created empty)
GetConfigMapData(cm) == IF cm.exists THEN cm.data ELSE EmptyDict

\* the ConfigMap after _get_configmap returned
AfterGetConfigMap(cm) == [exists |-> TRUE, data |-> GetConfigMapData(cm)]

\* _get_resources: json.loads(data.get(key, "{}"))
GetResources(cm, resource_type) ==
    LET data == GetConfigMapData(cm)
    IN  IF BlobKey(resource_type) \in DOMAIN data
        THEN JsonLoads(data[BlobKey(resource_type)])
        ELSE EmptyDict

\* _update_configmap: patch_namespaced_config_map({"data": data}) merges the
\* keys of data into the stored data; no resourceVersion is sent
UpdateConfigMap(cm, data) ==
    [exists |-> TRUE,
     data   |-> [k \in (DOMAIN cm.data) \cup (DOMAIN data) |->
                    IF k \in DOMAIN data THEN data[k] ELSE cm.data[k]]]

\* _set_resources run without interruption: read the data again, replace
\* the blob of this type, patch
SetResources(cm, resource_type, resources) ==
    UpdateConfigMap(AfterGetConfigMap(cm),
        DictPut(GetConfigMapData(cm), BlobKey(resource_type), JsonDumps(resources)))

\* the stored info of a record: {"id": ..., "cr_name": ..., **extra}
Info(resource_id, cr_name) == [id |-> resource_id, cr_name |-> cr_name]

\* register run without interruption
Register(cm, resource_type, name, resource_id, cr_name) ==
    SetResources(cm, resource_type,
        DictPut(GetResources(cm, resource_type), name, Info(resource_id, cr_name)))

\* an unregister that drops every record of the type
UnregisterType(cm, resource_type, name) ==
    IF name \in DOMAIN GetResources(cm, resource_type)
    THEN SetResources(cm, resource_type, EmptyDict)
    ELSE AfterGetConfigMap(cm)

\* unregister run without interruption
Unregister(cm, resource_type, name) ==
    IF name \in DOMAIN GetResources(cm, resource_type)
    THEN SetResources(cm, resource_type, DictPop(GetResources(cm, resource_type), name))
    ELSE AfterGetConfigMap(cm)

\* get_orphans: the records whose cr_name is not expected, in dict order
GetOrphans(cm, resource_type, expected_cr_names) ==
    LET resources == GetResources(cm, resource_type)
        ks == SortedSeq(DOMAIN resources)
        keep(k) == resources[k].cr_name \notin expected_cr_names
        orphanKeys == SelectSeq(ks, keep)
    IN  [i \in DOMAIN orphanKeys |->
            [name |-> orphanKeys[i]] @@ resources[orphanKeys[i]]]


(***************************************************************************)
(* The control plane and the remote cloud, as the GC daemons see them.     *)
(* A CR is <<kind, name>>; in this part of the model a CR's spec.name is   *)
(* its metadata.name.                                                      *)
(***************************************************************************)
\* bound: CR creations and removals by the user
MaxCrEvents == 4
\* bound: remote resources ever created
MaxIds == 4

CRUniverse ==
    {<<"domains", "a">>, <<"domains", "b">>, <<"flavors", "f">>,
     <<"projects", "a">>, <<"projects", "b">>}

\* the CRs a GC daemon is attached to: Domain CRs (cluster scope) and
\* Project CRs (namespaced scope)
DaemonCRs == {c \in CRUniverse : c[1] \in {"domains", "projects"}}

NoDaemon == <<"none", "none">>

\* the kinds in the opposite order
resource_configs_reversed == <<"domains", "flavors", "images", "provider_networks">>

\* _collect_cluster_garbage: the kinds in the order they are processed
resource_configs == <<"provider_networks", "images", "flavors", "domains">>

VARIABLES
    configmap,   \* the registry's ConfigMap
    crs,         \* the CRs present in the control plane
    crEvents,    \* number of CR creations and removals so far
    remote,      \* the remote resources: records [kind, name, id, parent]
    nextId,      \* the next remote id
    handler,     \* per CR: the create handler's position and the id it holds
    daemon,      \* per daemon CR: the GC daemon's position and locals
    loopOwner,   \* the daemon coroutine running on the event loop
    gcLog,       \* history: the remote deletes GC issued
    call,        \* per worker thread: the registry call it is executing
    mapping,     \* the remote federation mapping document
    fed,         \* per worker thread: the mapping call it is executing
    fedClock,    \* history: number of mapping writes so far
    seq,         \* a single caller's run of add_project_mapping calls
    ens,         \* a single caller's run of ensure calls
    cr,          \* the CR the reconcile handlers work on
    teardown,    \* the removal of that CR: its stage and the remote's outage
    client,      \* a single caller's run of one remote-client operation
    limiter,     \* the rate limiter, the clock and the threads that use it
    conds,       \* a conditions list, the clock, and the last set-condition call
    regseq,      \* a single caller's registry calls: the map they amount to and the last call
    reconciling, \* a single reconcile's remote calls: its position, locals and the remote
    inprogress   \* the reconcile_in_progress gauge of one CR kind and the handler threads of that kind

\* the control plane as the GC daemons see it
cpVars == <<crs, crEvents, handler, daemon, loopOwner, gcLog>>

cloudVars == <<remote, nextId>>

gcOnlyVars == <<cpVars, cloudVars>>

gcVars == <<configmap, gcOnlyVars>>

regVars == <<call>>

fedVars == <<mapping, fed, fedClock, seq>>

ensVars == <<ens>>

reconVars == <<cr>>

tdVars == <<teardown>>

clientVars == <<client>>

limVars == <<limiter>>

condVars == <<conds>>

seqVars == <<regseq>>

runVars == <<reconciling>>

gaugeVars == <<inprogress>>

nonGcVars == <<regVars, fedVars, ensVars, reconVars, tdVars, clientVars, limVars, condVars, seqVars, runVars, gaugeVars>>

nonRegVars == <<gcOnlyVars, fedVars, ensVars, reconVars, tdVars, clientVars, limVars, condVars, seqVars, runVars, gaugeVars>>

nonFedVars == <<gcVars, regVars, ensVars, reconVars, tdVars, clientVars, limVars, condVars, seqVars, runVars, gaugeVars>>

nonEnsVars == <<configmap, cpVars, regVars, fedVars, reconVars, tdVars, clientVars, limVars, condVars, seqVars, runVars, gaugeVars>>

nonReconVars == <<cpVars, regVars, fedVars, ensVars, tdVars, clientVars, limVars, condVars, seqVars, runVars, gaugeVars>>

nonTdVars == <<configmap, nextId, cpVars, regVars, fedVars, ensVars, clientVars, limVars, condVars, seqVars, runVars, gaugeVars>>

vars == <<gcVars, regVars, fedVars, ensVars, reconVars, tdVars, clientVars, limVars, condVars, seqVars, runVars, gaugeVars>>

\* the worker threads that run sync handlers concurrently
Callers == {"t1", "t2"}

\* a thread outside any registry call
NoCall ==
    [pc |-> "idle", op |-> "none", resource_type |-> "none", name |-> "none",
     resources |-> EmptyDict, data |-> EmptyDict]

\* get_mapping returns None: the mapping document does not exist
NoMapping == [exists |-> FALSE, rules |-> <<>>]

\* a thread outside any mapping call
NoFedCall ==
    [pc |-> "idle", project_name |-> "none", users |-> <<>>, new_rules |-> <<>>,
     fetchedAt |-> 0, wroteAt |-> 0]

\* no run of calls in progress
NoSeq == [step |-> 0, project_name |-> "none", users |-> <<>>, before |-> NoMapping]

\* no run of ensure calls in progress
NoEns ==
    [kind |-> "none", name |-> "none", extra |-> FALSE, run |-> 0,
     ids1 |-> EmptyDict, issued1 |-> {}, rem1 |-> {}, ids2 |-> EmptyDict, issued2 |-> {}]

RegIdle == call = [t \in Callers |-> NoCall]

EnsIdle == ens = NoEns

\* no CR under reconciliation
NoCR ==
    [kind |-> "none", name |-> "none", specName |-> "none", domain |-> "default",
     external |-> FALSE, quotas |-> FALSE, generation |-> 0, created |-> FALSE, handled |-> 0,
     diff |-> {},
     status |-> EmptyDict]

ReconIdle == cr = NoCR

\* no CR removal in progress
NoTeardown == [stage |-> "idle", outage |-> 0, owned |-> {}]

TdIdle == teardown = NoTeardown

\* retry_on_error(delay=1.0): the seconds slept before the first retry
delay == 1

\* retry_on_error(backoff=2.0): the factor applied to the sleep after each
\* failed attempt
backoff == 2

\* the wrapper's locals when it is entered: range(max_retries + 1) starts
\* at 0, current_delay = delay, nothing slept yet
NoFrame == [attempt |-> 0, current_delay |-> delay, slept |-> <<>>]

\* no client operation in progress
NoClient ==
    [pc |-> "idle", op |-> "none", id |-> 0, missing |-> FALSE, outer |-> NoFrame,
     inner |-> NoFrame, innerCalls |-> 0, faulted |-> FALSE, result |-> "none"]

ClientIdle == client = NoClient

\* no rate limiter in use
NoLimiter == [semaphore |-> 0, lock |-> 0, last_call_time |-> 0, clock |-> 0,
              threads |-> <<>>]

LimIdle == limiter = NoLimiter

\* no conditions list in use
NoConds == [list |-> <<>>, clock |-> 0, call |-> <<>>, before |-> <<>>]

CondIdle == conds = NoConds

\* no sequential registry use
NoRegSeq == [records |-> {}, call |-> <<>>, before |-> [exists |-> FALSE, data |-> <<>>],
             result |-> <<>>]

RegSeqIdle == regseq = NoRegSeq

\* no reconcile of remote calls in progress
NoRun == [pc |-> "idle"]

RunIdle == reconciling = NoRun

\* the gauge as init_metrics sets it, no handler running
NoHandlers == [gauge |-> 0]

GaugeIdle == inprogress = NoHandlers

FedIdle ==
    /\ mapping = NoMapping
    /\ fed = [t \in Callers |-> NoFedCall]
    /\ fedClock = 0
    /\ seq = NoSeq

IdleDaemon(pc) == [pc |-> pc, expected |-> EmptyDict, idx |-> 0, todo |-> <<>>]

CrNames(kind) == {c[2] : c \in {x \in crs : x[1] = kind}}

\* a find_* call of the client: the remote resources of a kind and name
Find(kind, name) == {r \in remote : r.kind = kind /\ r.name = name}

\* a delete_* call of the client by id; not-found is swallowed
RemoteDelete(rem, kind, id) == {r \in rem : ~(r.kind = kind /\ r.id = id)}

CpInit ==
    /\ crs = {}
    /\ crEvents = 0
    /\ handler = [c \in CRUniverse |-> [pc |-> "none", id |-> 0]]
    /\ daemon = [d \in DaemonCRs |-> IdleDaemon("off")]
    /\ loopOwner = NoDaemon
    /\ gcLog = {}

GcOnlyInit ==
    /\ CpInit
    /\ remote = {}
    /\ nextId = 1

InitGC ==
    /\ configmap = NoConfigMap
    /\ GcOnlyInit
    /\ RegIdle
    /\ ClientIdle
    /\ LimIdle
    /\ CondIdle
    /\ RegSeqIdle
    /\ RunIdle
    /\ GaugeIdle
    /\ FedIdle
    /\ EnsIdle
    /\ ReconIdle
    /\ TdIdle

(***************************************************************************)
(* The user.  A CR appears; a CR disappears without its delete handler     *)
(* having torn the remote resources down (the case GC exists for).         *)
(***************************************************************************)
CreateCR(c) ==
    /\ c \notin crs
    /\ crEvents < MaxCrEvents
    /\ handler[c].pc \in {"none", "done"}
    /\ crs' = crs \cup {c}
    /\ crEvents' = crEvents + 1
    /\ handler' = [handler EXCEPT ![c] = [pc |-> "none", id |-> 0]]
    /\ daemon' = IF c \in DaemonCRs /\ daemon[c].pc = "off"
                 THEN [daemon EXCEPT ![c] = IdleDaemon("wait")]
                 ELSE daemon
    /\ UNCHANGED <<configmap, remote, nextId, loopOwner, gcLog>>
    /\ UNCHANGED nonGcVars

RemoveCR(c) ==
    /\ c \in crs
    /\ crEvents < MaxCrEvents
    /\ crs' = crs \ {c}
    /\ crEvents' = crEvents + 1
    \* kopf sets the daemon's stopped flag: a daemon in stopped.wait exits
    /\ daemon' = IF c \in DaemonCRs /\ daemon[c].pc = "wait"
                 THEN [daemon EXCEPT ![c] = IdleDaemon("off")]
                 ELSE daemon
    /\ UNCHANGED <<configmap, remote, nextId, handler, loopOwner, gcLog>>
    /\ UNCHANGED nonGcVars

(***************************************************************************)
(* Create handlers, run by kopf in worker threads: they interleave with    *)
(* the steps of a GC tick.                                                 *)
(***************************************************************************)
\* a loop that would start an iteration while another is mid-body
LoopAlwaysFree == TRUE

\* the event loop is idle: it can start a daemon's next iteration or hand a
\* handler to a worker thread
LoopFree == loopOwner = NoDaemon

\* kopf dispatches the CR's create handler to a worker thread; the event loop
\* does the dispatching, so no handler starts while a tick body holds the loop
HandlerStart(c) ==
    /\ c \in crs
    /\ handler[c].pc = "none"
    /\ LoopFree
    /\ handler' = [handler EXCEPT ![c].pc = "started"]
    /\ UNCHANGED <<configmap, crs, crEvents, remote, nextId, daemon, loopOwner, gcLog>>
    /\ UNCHANGED nonGcVars

\* ensure_flavor / ensure_domain: find by name, create when absent
HandlerEnsure(c) ==
    /\ c[1] \in {"flavors", "domains"}
    /\ handler[c].pc = "started"
    /\ IF Find(c[1], c[2]) # {}
       THEN /\ handler' = [handler EXCEPT ![c] =
                    [pc |-> "ensured", id |-> (CHOOSE r \in Find(c[1], c[2]) : TRUE).id]]
            /\ UNCHANGED <<remote, nextId>>
       ELSE /\ nextId <= MaxIds
            /\ remote' = remote \cup {[kind |-> c[1], name |-> c[2], id |-> nextId, parent |-> 0]}
            /\ nextId' = nextId + 1
            /\ handler' = [handler EXCEPT ![c] = [pc |-> "ensured", id |-> nextId]]
    /\ UNCHANGED <<configmap, crs, crEvents, daemon, loopOwner, gcLog>>
    /\ UNCHANGED nonGcVars

\* registry.register(kind, spec.name, id, cr_name=name), then phase Ready
HandlerRegister(c) ==
    /\ handler[c].pc = "ensured"
    /\ configmap' = Register(configmap, c[1], c[2], handler[c].id, c[2])
    /\ handler' = [handler EXCEPT ![c].pc = "done"]
    /\ UNCHANGED <<crs, crEvents, remote, nextId, daemon, loopOwner, gcLog>>
    /\ UNCHANGED nonGcVars

\* ensure_project's group: find by derived name, create when absent
EnsureGroup(rem, id, project_name) ==
    IF \E r \in rem : r.kind = "groups" /\ r.name = make_group_name(project_name)
    THEN rem
    ELSE rem \cup {[kind |-> "groups", name |-> make_group_name(project_name), id |-> id, parent |-> 0]}

\* create_project: ensure_project finds or creates the tagged project and its
\* group; the project handler registers neither
HandlerEnsureProject(c) ==
    /\ c[1] = "projects"
    /\ handler[c].pc = "started"
    /\ nextId + 1 <= MaxIds
    /\ IF Find("projects", c[2]) # {}
       THEN /\ handler' = [handler EXCEPT ![c] =
                    [pc |-> "done", id |-> (CHOOSE r \in Find("projects", c[2]) : TRUE).id]]
            /\ remote' = EnsureGroup(remote, nextId + 1, c[2])
       ELSE /\ remote' = EnsureGroup(
                    remote \cup {[kind |-> "projects", name |-> c[2], id |-> nextId, parent |-> 0]},
                    nextId + 1, c[2])
            /\ handler' = [handler EXCEPT ![c] = [pc |-> "done", id |-> nextId]]
    /\ nextId' = nextId + 2
    /\ UNCHANGED <<configmap, crs, crEvents, daemon, loopOwner, gcLog>>
    /\ UNCHANGED nonGcVars

(***************************************************************************)
(* The GC daemons.  Both are async coroutines of the one kopf event loop;  *)
(* a loop iteration runs from the CR listing to the next await             *)
(* (stopped.wait) without yielding: every call in between is a blocking    *)
(* synchronous call.  A daemon step therefore needs the loop free or held  *)
(* by the daemon itself.                                                   *)
(***************************************************************************)
InTick(d) == daemon[d].pc \notin {"off", "wait"}

\* where a daemon goes at the end of an iteration: stopped.wait, which it
\* leaves for good when its CR is gone
AfterTick(d) == IF d \in crs THEN IdleDaemon("wait") ELSE IdleDaemon("off")

\* the dict literal expected_crs, in evaluation order
ExpectedKinds == <<"domains", "flavors", "images", "provider_networks">>

\* cluster daemon: list the Domain CRs, run only when this CR sorts first
GcElect(d) ==
    /\ d[1] = "domains"
    /\ d \in crs
    /\ daemon[d].pc = "wait"
    /\ LoopFree
    /\ d[2] = SortedFirst(CrNames("domains"))
    /\ daemon' = [daemon EXCEPT ![d] = [IdleDaemon("expect") EXCEPT !.idx = 1]]
    /\ loopOwner' = d
    /\ UNCHANGED <<configmap, crs, crEvents, remote, nextId, handler, gcLog>>
    /\ UNCHANGED nonGcVars

\* _get_expected_cr_names, one listing per kind
GcExpect(d) ==
    /\ daemon[d].pc = "expect"
    /\ LET kind == ExpectedKinds[daemon[d].idx]
           exp == DictPut(daemon[d].expected, kind, CrNames(kind))
       IN  daemon' = [daemon EXCEPT ![d] =
                IF daemon[d].idx = Len(ExpectedKinds)
                THEN [pc |-> "orphans", expected |-> exp, idx |-> 1, todo |-> <<>>]
                ELSE [pc |-> "expect", expected |-> exp, idx |-> daemon[d].idx + 1, todo |-> <<>>]]
    /\ UNCHANGED <<configmap, crs, crEvents, remote, nextId, handler, loopOwner, gcLog>>
    /\ UNCHANGED nonGcVars

\* registry.get_orphans(resource_type, expected_crs[resource_type])
GcOrphans(d) ==
    /\ daemon[d].pc = "orphans"
    /\ LET kind == resource_configs[daemon[d].idx]
       IN  daemon' = [daemon EXCEPT ![d].pc = "delete",
                                    ![d].todo = GetOrphans(configmap, kind, daemon[d].expected[kind])]
    /\ configmap' = AfterGetConfigMap(configmap)
    /\ UNCHANGED <<crs, crEvents, remote, nextId, handler, loopOwner, gcLog>>
    /\ UNCHANGED nonGcVars

\* delete_fn(client, orphan); registry.unregister(resource_type, name).
\* A failing delete is logged and the loop goes on to the next orphan.
GcDeleteOrphan(d) ==
    /\ daemon[d].pc = "delete"
    /\ daemon[d].todo # <<>>
    /\ LET kind == resource_configs[daemon[d].idx]
           orphan == Head(daemon[d].todo)
       IN  \E ok \in BOOLEAN :
             IF ok
             THEN /\ remote' = RemoteDelete(remote, kind, orphan.id)
                  /\ configmap' = Unregister(configmap, kind, orphan.name)
                  /\ gcLog' = gcLog \cup
                        {[kind |-> kind, name |-> orphan.name,
                          live |-> <<kind, orphan.cr_name>> \in crs]}
             ELSE UNCHANGED <<remote, configmap, gcLog>>
    /\ daemon' = [daemon EXCEPT ![d].todo = Tail(daemon[d].todo)]
    /\ UNCHANGED <<crs, crEvents, nextId, handler, loopOwner>>
    /\ UNCHANGED nonGcVars

\* the next entry of resource_configs
GcNextKind(d) ==
    /\ daemon[d].pc = "delete"
    /\ daemon[d].todo = <<>>
    /\ daemon[d].idx < Len(resource_configs)
    /\ daemon' = [daemon EXCEPT ![d].pc = "orphans", ![d].idx = daemon[d].idx + 1]
    /\ UNCHANGED <<configmap, crs, crEvents, remote, nextId, handler, loopOwner, gcLog>>
    /\ UNCHANGED nonGcVars

\* end of the tick body: await stopped.wait(gc_interval)
GcEndTick(d) ==
    /\ daemon[d].pc = "delete"
    /\ daemon[d].todo = <<>>
    /\ daemon[d].idx = Len(resource_configs)
    /\ daemon' = [daemon EXCEPT ![d] = AfterTick(d)]
    /\ loopOwner' = NoDaemon
    /\ UNCHANGED <<configmap, crs, crEvents, remote, nextId, handler, gcLog>>
    /\ UNCHANGED nonGcVars


\* project daemon: list the Project CRs, run only when this CR sorts first;
\* get_expected_projects_from_crs reads the same listing
PgcElect(d) ==
    /\ d[1] = "projects"
    /\ d \in crs
    /\ daemon[d].pc = "wait"
    /\ LoopFree
    /\ d[2] = SortedFirst(CrNames("projects"))
    /\ daemon' = [daemon EXCEPT ![d] =
            [pc |-> "domain", expected |-> DictPut(EmptyDict, "projects", CrNames("projects")),
             idx |-> 0, todo |-> <<>>]]
    /\ loopOwner' = d
    /\ UNCHANGED <<configmap, crs, crEvents, remote, nextId, handler, gcLog>>
    /\ UNCHANGED nonGcVars

\* the tagged projects as client.list_projects_with_tag returns them
TaggedProjects ==
    LET ps == {r \in remote : r.kind = "projects"}
        ns == SortedSeq({r.name : r \in ps})
    IN  [i \in DOMAIN ns |-> CHOOSE r \in ps : r.name = ns[i]]

\* collect_garbage: the managed domain is found and the tagged projects listed
PgcListTagged(d) ==
    /\ daemon[d].pc = "domain"
    /\ daemon' = [daemon EXCEPT ![d].pc = "pdelete", ![d].todo = TaggedProjects]
    /\ UNCHANGED <<configmap, crs, crEvents, remote, nextId, handler, loopOwner, gcLog>>
    /\ UNCHANGED nonGcVars

\* collect_garbage: the managed domain is not found, the tick ends
PgcNoDomain(d) ==
    /\ daemon[d].pc = "domain"
    /\ daemon' = [daemon EXCEPT ![d] = AfterTick(d)]
    /\ loopOwner' = NoDaemon
    /\ UNCHANGED <<configmap, crs, crEvents, remote, nextId, handler, gcLog>>
    /\ UNCHANGED nonGcVars

\* a tagged project whose name is expected is skipped
PgcSkip(d) ==
    /\ daemon[d].pc = "pdelete"
    /\ daemon[d].todo # <<>>
    /\ Head(daemon[d].todo).name \in daemon[d].expected["projects"]
    /\ daemon' = [daemon EXCEPT ![d].todo = Tail(daemon[d].todo)]
    /\ UNCHANGED <<configmap, crs, crEvents, remote, nextId, handler, loopOwner, gcLog>>
    /\ UNCHANGED nonGcVars

\* a tagged project whose name is not expected: the group found by its derived
\* name is deleted, then the project by the listed id; each delete may fail
PgcDeleteOrphan(d) ==
    /\ daemon[d].pc = "pdelete"
    /\ daemon[d].todo # <<>>
    /\ LET project == Head(daemon[d].todo)
           groups == Find("groups", make_group_name(project.name))
           live == <<"projects", project.name>> \in crs
       IN  /\ project.name \notin daemon[d].expected["projects"]
           /\ \E okGroup, okProject \in BOOLEAN :
                LET afterGroup == IF okGroup THEN remote \ groups ELSE remote
                    groupLog == IF okGroup
                                THEN {[kind |-> "groups", name |-> g.name, live |-> live] : g \in groups}
                                ELSE {}
                    projectLog == IF okProject /\ project \in remote
                                  THEN {[kind |-> "projects", name |-> project.name, live |-> live]}
                                  ELSE {}
                IN  /\ remote' = IF okProject
                                 THEN RemoteDelete(afterGroup, "projects", project.id)
                                 ELSE afterGroup
                    /\ gcLog' = gcLog \cup groupLog \cup projectLog
    /\ daemon' = [daemon EXCEPT ![d].todo = Tail(daemon[d].todo)]
    /\ UNCHANGED <<configmap, crs, crEvents, nextId, handler, loopOwner>>
    /\ UNCHANGED nonGcVars

\* end of the project tick body: await stopped.wait(gc_interval)
PgcEndTick(d) ==
    /\ daemon[d].pc = "pdelete"
    /\ daemon[d].todo = <<>>
    /\ daemon' = [daemon EXCEPT ![d] = AfterTick(d)]
    /\ loopOwner' = NoDaemon
    /\ UNCHANGED <<configmap, crs, crEvents, remote, nextId, handler, gcLog>>
    /\ UNCHANGED nonGcVars

NextGC ==
    \/ \E c \in CRUniverse : CreateCR(c)
    \/ \E c \in CRUniverse : RemoveCR(c)
    \/ \E c \in CRUniverse : HandlerStart(c)
    \/ \E c \in CRUniverse : HandlerEnsure(c)
    \/ \E c \in CRUniverse : HandlerRegister(c)
    \/ \E c \in CRUniverse : HandlerEnsureProject(c)
    \/ \E d \in DaemonCRs : GcElect(d)
    \/ \E d \in DaemonCRs : GcExpect(d)
    \/ \E d \in DaemonCRs : GcOrphans(d)
    \/ \E d \in DaemonCRs : GcDeleteOrphan(d)
    \/ \E d \in DaemonCRs : GcNextKind(d)
    \/ \E d \in DaemonCRs : GcEndTick(d)
    \/ \E d \in DaemonCRs : PgcElect(d)
    \/ \E d \in DaemonCRs : PgcListTagged(d)
    \/ \E d \in DaemonCRs : PgcNoDomain(d)
    \/ \E d \in DaemonCRs : PgcSkip(d)
    \/ \E d \in DaemonCRs : PgcDeleteOrphan(d)
    \/ \E d \in DaemonCRs : PgcEndTick(d)

SpecGC == InitGC /\ [][NextGC]_vars

\* C1: every delete the GC daemons have performed hit a resource whose
\* owning CR was absent at the instant of the delete
C1_GcDeletesOnlyOrphans == \A e \in gcLog : ~e.live

\* C3: at most one GC tick is in progress in each scope
C3_OneTickPerScope ==
    \A kind \in {"domains", "projects"} :
        Cardinality({d \in DaemonCRs : d[1] = kind /\ InTick(d)}) <= 1

\* a tick is in progress on a CR that no longer sorts first in its scope
C3_Witness ==
    \E d \in DaemonCRs :
        /\ InTick(d)
        /\ CrNames(d[1]) # {}
        /\ d[2] # SortedFirst(CrNames(d[1]))


(***************************************************************************)
(* Concurrent registry calls.  Sync handlers run in worker threads, so two *)
(* register/unregister calls interleave at their ConfigMap requests:       *)
(* _get_resources reads, _set_resources reads again and then patches.      *)
(***************************************************************************)
\* the keys the callers use
RegTypes == {"flavors", "domains"}

RegNames == {"a", "b"}

\* the remote id registered under a name
RegId(name) == Rank(name)

\* registries left by earlier, complete calls
InitialRegistries ==
    {NoConfigMap,
     Register(NoConfigMap, "flavors", "a", RegId("a"), "a"),
     Register(Register(NoConfigMap, "flavors", "a", RegId("a"), "a"),
              "domains", "b", RegId("b"), "b")}

InitReg ==
    /\ configmap \in InitialRegistries
    /\ RegIdle
    /\ ClientIdle
    /\ LimIdle
    /\ CondIdle
    /\ RegSeqIdle
    /\ RunIdle
    /\ GaugeIdle
    /\ GcOnlyInit
    /\ FedIdle
    /\ EnsIdle
    /\ ReconIdle
    /\ TdIdle

\* register, up to the call of _set_resources: resources = _get_resources(),
\* resources[name] = info
RegisterRead(t, resource_type, name) ==
    /\ call[t].pc = "idle"
    /\ call' = [call EXCEPT ![t] =
            [pc |-> "set", op |-> "register", resource_type |-> resource_type,
             name |-> name,
             resources |-> DictPut(GetResources(configmap, resource_type), name,
                                   Info(RegId(name), name)),
             data |-> EmptyDict]]
    /\ configmap' = AfterGetConfigMap(configmap)
    /\ UNCHANGED nonRegVars

\* unregister, up to the call of _set_resources; a name that is not
\* registered ends the call
UnregisterRead(t, resource_type, name) ==
    /\ call[t].pc = "idle"
    /\ LET resources == GetResources(configmap, resource_type)
       IN  call' = [call EXCEPT ![t] =
             [pc |-> IF name \in DOMAIN resources THEN "set" ELSE "done",
              op |-> "unregister", resource_type |-> resource_type, name |-> name,
              resources |-> IF name \in DOMAIN resources
                            THEN DictPop(resources, name) ELSE resources,
              data |-> EmptyDict]]
    /\ configmap' = AfterGetConfigMap(configmap)
    /\ UNCHANGED nonRegVars

\* _set_resources: data = _get_configmap(); data[key] = json.dumps(resources)
SetResourcesRead(t) ==
    /\ call[t].pc = "set"
    /\ call' = [call EXCEPT ![t].pc = "patch",
                            ![t].data = DictPut(GetConfigMapData(configmap),
                                                BlobKey(call[t].resource_type),
                                                JsonDumps(call[t].resources))]
    /\ configmap' = AfterGetConfigMap(configmap)
    /\ UNCHANGED nonRegVars

\* _set_resources: _update_configmap(data), then the call returns
SetResourcesPatch(t) ==
    /\ call[t].pc = "patch"
    /\ configmap' = UpdateConfigMap(configmap, call[t].data)
    /\ call' = [call EXCEPT ![t].pc = "done"]
    /\ UNCHANGED nonRegVars

NextReg ==
    \/ \E t \in Callers, resource_type \in RegTypes, name \in RegNames :
            RegisterRead(t, resource_type, name)
    \/ \E t \in Callers, resource_type \in RegTypes, name \in RegNames :
            UnregisterRead(t, resource_type, name)
    \/ \E t \in Callers : SetResourcesRead(t)
    \/ \E t \in Callers : SetResourcesPatch(t)

SpecReg == InitReg /\ [][NextReg]_vars

\* the registry shows the effect of a returned call
Reflected(t) ==
    LET resources == GetResources(configmap, call[t].resource_type)
    IN  IF call[t].op = "register"
        THEN /\ call[t].name \in DOMAIN resources
             /\ resources[call[t].name] = Info(RegId(call[t].name), call[t].name)
        ELSE call[t].name \notin DOMAIN resources

\* C2: when two calls on different keys have both returned, the registry
\* reflects both mutations
C2_NoLostWrite ==
    \A t, u \in Callers :
        (/\ call[t].pc = "done"
         /\ call[u].pc = "done"
         /\ <<call[t].resource_type, call[t].name>> # <<call[u].resource_type, call[u].name>>)
        => Reflected(t) /\ Reflected(u)


(***************************************************************************)
(* The federation mapping (resources/federation.py).  A rule is modelled   *)
(* by the parts that vary: the local group name, the domain and the        *)
(* remote any_one_of list.                                                 *)
(***************************************************************************)
SsoDomain == "sso-users"

\* generate_mapping_rule: the users are stored as passed
generate_mapping_rule(project_name, users, domain) ==
    [group |-> make_group_name(project_name), domain |-> domain, any_one_of |-> users]

\* a rule filter that matches no rule
RuleNeverMatches(rule, group_name) == FALSE

\* _rule_matches_group
RuleMatchesGroup(rule, group_name) == rule.group = group_name

\* add_project_mapping on rules that keeps only its own rule
NewRulesOnlyOwn(current_rules, project_name, users) ==
    <<generate_mapping_rule(project_name, users, SsoDomain)>>

\* add_project_mapping: drop the rules of this project's group, append the
\* new rule
NewRules(current_rules, project_name, users) ==
    LET keep(rule) == ~RuleMatchesGroup(rule, make_group_name(project_name))
    IN  Append(SelectSeq(current_rules, keep),
               generate_mapping_rule(project_name, users, SsoDomain))

\* get_current_mapping_rules
CurrentRules(m) == IF m.exists THEN m.rules ELSE <<>>

\* update_mapping: update the mapping, or create it when it is absent
UpdateMapping(m, rules) == [exists |-> TRUE, rules |-> rules]

\* add_project_mapping run without interruption
AddProjectMapping(m, project_name, users) ==
    IF users = <<>> THEN m
    ELSE UpdateMapping(m, NewRules(CurrentRules(m), project_name, users))

RECURSIVE AppendUnique(_, _)
\* for user in binding_users: if user not in users: users.append(user)
AppendUnique(users, binding_users) ==
    IF binding_users = <<>> THEN users
    ELSE AppendUnique(
            IF \E i \in DOMAIN users : users[i] = Head(binding_users)
            THEN users ELSE Append(users, Head(binding_users)),
            Tail(binding_users))

RECURSIVE get_users_from_role_bindings(_)
\* get_users_from_role_bindings, on the users lists of the bindings
get_users_from_role_bindings(role_bindings) ==
    IF role_bindings = <<>> THEN <<>>
    ELSE AppendUnique(
            get_users_from_role_bindings(SubSeq(role_bindings, 1, Len(role_bindings) - 1)),
            role_bindings[Len(role_bindings)])

FedProjects == {"a", "b"}

\* user lists a caller can pass: empty, duplicate-free, with a duplicate
UserLists == {<<>>, <<"u1">>, <<"u1", "u2">>, <<"u2", "u1">>, <<"u1", "u1">>}

\* the lists the reconcilers pass: users = get_users_from_role_bindings(...),
\* and the call is made only "if users"
ReconcilerUserLists ==
    {users \in UserLists :
        users # <<>> /\ users = get_users_from_role_bindings(<<users>>)}

\* mappings left by earlier, complete calls
InitialMappings ==
    LET m1 == AddProjectMapping(NoMapping, "a", <<"u1">>)
        m2 == AddProjectMapping(NoMapping, "b", <<"u2">>)
    IN  {NoMapping, m1, m2,
         AddProjectMapping(m1, "b", <<"u1", "u2">>),
         AddProjectMapping(m2, "a", <<"u2">>)}

\* the rules of the mapping for a project's derived group
RulesFor(m, project_name) ==
    SelectSeq(CurrentRules(m),
              LAMBDA rule : rule.group = make_group_name(project_name))

\* the rules of the mapping for every other group
RulesNotFor(m, project_name) ==
    SelectSeq(CurrentRules(m),
              LAMBDA rule : rule.group # make_group_name(project_name))

(***************************************************************************)
(* Concurrent mapping updates: two reconcilers in worker threads, each     *)
(* running one add_project_mapping with a non-empty user list.             *)
(***************************************************************************)
InitFed ==
    /\ mapping \in InitialMappings
    /\ fed = [t \in Callers |-> NoFedCall]
    /\ fedClock = 0
    /\ seq = NoSeq
    /\ configmap = NoConfigMap
    /\ GcOnlyInit
    /\ RegIdle
    /\ ClientIdle
    /\ LimIdle
    /\ CondIdle
    /\ RegSeqIdle
    /\ RunIdle
    /\ GaugeIdle
    /\ EnsIdle
    /\ ReconIdle
    /\ TdIdle

\* add_project_mapping up to update_mapping: fetch, filter, append
FedFetch(t, project_name, users) ==
    /\ fed[t].pc = "idle"
    /\ fed' = [fed EXCEPT ![t] =
            [pc |-> "write", project_name |-> project_name, users |-> users,
             new_rules |-> NewRules(CurrentRules(mapping), project_name, users),
             fetchedAt |-> fedClock, wroteAt |-> 0]]
    /\ UNCHANGED <<mapping, fedClock, seq>>
    /\ UNCHANGED nonFedVars

\* update_mapping(new_rules), then the call returns
FedWrite(t) ==
    /\ fed[t].pc = "write"
    /\ mapping' = UpdateMapping(mapping, fed[t].new_rules)
    /\ fedClock' = fedClock + 1
    /\ fed' = [fed EXCEPT ![t].pc = "done", ![t].wroteAt = fedClock + 1]
    /\ UNCHANGED seq
    /\ UNCHANGED nonFedVars

NextFed ==
    \/ \E t \in Callers, project_name \in FedProjects, users \in ReconcilerUserLists :
            FedFetch(t, project_name, users)
    \/ \E t \in Callers : FedWrite(t)

SpecFed == InitFed /\ [][NextFed]_vars

\* the mapping holds the rule a returned call wrote
HasRule(t) ==
    \E i \in DOMAIN CurrentRules(mapping) :
        CurrentRules(mapping)[i] =
            generate_mapping_rule(fed[t].project_name, fed[t].users, SsoDomain)

\* two calls for different projects have both returned
BothReturned(t, u) ==
    /\ fed[t].pc = "done"
    /\ fed[u].pc = "done"
    /\ fed[t].project_name # fed[u].project_name

InitFedSeq ==
    /\ mapping \in InitialMappings
    /\ \E project_name \in FedProjects, users \in UserLists :
            seq = [step |-> 0, project_name |-> project_name, users |-> users,
                   before |-> mapping]
    /\ fed = [t \in Callers |-> NoFedCall]
    /\ fedClock = 0
    /\ configmap = NoConfigMap
    /\ GcOnlyInit
    /\ RegIdle
    /\ ClientIdle
    /\ LimIdle
    /\ CondIdle
    /\ RegSeqIdle
    /\ RunIdle
    /\ GaugeIdle
    /\ EnsIdle
    /\ ReconIdle
    /\ TdIdle

\* the first add_project_mapping(p, U)
SeqAddFirst ==
    /\ seq.step = 0
    /\ mapping' = AddProjectMapping(mapping, seq.project_name, seq.users)
    /\ seq' = [seq EXCEPT !.step = 1]
    /\ UNCHANGED <<fed, fedClock>>
    /\ UNCHANGED nonFedVars

\* the second add_project_mapping(p, U)
SeqAddSecond ==
    /\ seq.step = 1
    /\ mapping' = AddProjectMapping(mapping, seq.project_name, seq.users)
    /\ seq' = [seq EXCEPT !.step = 2]
    /\ UNCHANGED <<fed, fedClock>>
    /\ UNCHANGED nonFedVars

NextFedSeq == SeqAddFirst \/ SeqAddSecond

SpecFedSeq == InitFedSeq /\ [][NextFedSeq]_vars

\* dedup(U)
Dedup(users) == get_users_from_role_bindings(<<users>>)

Cloud(rem, nid) == [rem |-> rem, nid |-> nid, issued |-> {}, id |-> 0]

\* a lookup that finds nothing
FindNothing(rem, kind, name, parent) == {}

\* client.get_<kind>(name, scope): the resources of that name in the scope
FindIn(rem, kind, name, parent) ==
    {r \in rem : r.kind = kind /\ r.name = name /\ r.parent = parent}

\* existing = client.get_...(); if existing: use its id; else: client.create_...()
FindOrCreate(st, request, kind, name, parent) ==
    IF FindIn(st.rem, kind, name, parent) # {}
    THEN [st EXCEPT !.id = (CHOOSE r \in FindIn(st.rem, kind, name, parent) : TRUE).id]
    ELSE [rem    |-> st.rem \cup {[kind |-> kind, name |-> name, id |-> st.nid, parent |-> parent]},
          nid    |-> st.nid + 1,
          issued |-> st.issued \cup {request},
          id     |-> st.nid]

\* a create request the remote answers with ConflictException when the
\* resource exists; the client swallows the conflict
CreateOrConflict(st, request, kind, name, parent) ==
    [FindOrCreate(st, request, kind, name, parent) EXCEPT !.issued = st.issued \cup {request}]

\* ensure_project: the project, then its group
EnsureProject(st, name) ==
    LET s1 == FindOrCreate(st, "create_project", "projects", name, 0)
        s2 == FindOrCreate(s1, "create_group", "groups", make_group_name(name), 0)
    IN  [st |-> s2, ids |-> [projectId |-> s1.id, groupId |-> s2.id]]

\* ensure_network: network, subnet, and the router when the spec asks for one
EnsureNetwork(st, project_id, name, router) ==
    LET s1 == FindOrCreate(st, "create_network", "networks", name, project_id)
        s2 == FindOrCreate(s1, "create_subnet", "subnets", name \o "-subnet", s1.id)
        s3 == FindOrCreate(s2, "create_router", "routers", name \o "-router", project_id)
    IN  IF router
        THEN [st |-> s3, ids |-> [networkId |-> s1.id, subnetId |-> s2.id, routerId |-> s3.id]]
        ELSE [st |-> s2, ids |-> [networkId |-> s1.id, subnetId |-> s2.id]]

\* ensure_security_groups for one group: first pass the group, second pass
\* its rule
EnsureSecurityGroups(st, project_id, name, rules) ==
    LET s1 == FindOrCreate(st, "create_security_group", "security_groups", name, project_id)
        s2 == CreateOrConflict(s1, "create_security_group_rule",
                               "security_group_rules", "ingress", s1.id)
    IN  [st |-> IF rules THEN [s2 EXCEPT !.id = s1.id] ELSE s1, ids |-> [id |-> s1.id]]

\* ensure_domain
EnsureDomain(st, name) ==
    LET s1 == FindOrCreate(st, "create_domain", "domains", name, 0)
    IN  [st |-> s1, ids |-> [domainId |-> s1.id]]

\* ensure_flavor: set_flavor_extra_specs writes the extra specs on every run
EnsureFlavor(st, name, extraSpecs) ==
    LET s1 == FindOrCreate(st, "create_flavor", "flavors", name, 0)
        s2 == [s1 EXCEPT !.issued = s1.issued \cup {"create_flavor_extra_specs"}]
    IN  [st |-> IF extraSpecs THEN s2 ELSE s1, ids |-> [flavorId |-> s1.id]]

\* ensure_image with content: create and import when absent
EnsureImage(st, name) ==
    LET s1 == FindOrCreate(st, "create_image", "images", name, 0)
    IN  [st |-> s1, ids |-> [imageId |-> s1.id]]

\* ensure_provider_network: an existing network is returned with the
\* subnets it has; a new one gets the subnets of the spec
EnsureProviderNetwork(st, name, subnet) ==
    LET s1 == FindOrCreate(st, "create_provider_network", "provider_networks", name, 0)
        s2 == FindOrCreate(s1, "create_subnet_with_pools", "subnets", name \o "-subnet", s1.id)
        created == FindIn(st.rem, "provider_networks", name, 0) = {}
        after == IF created /\ subnet THEN s2 ELSE s1
    IN  [st  |-> [after EXCEPT !.id = s1.id],
         ids |-> [networkId |-> s1.id,
                  subnets |-> {r.id : r \in {x \in after.rem :
                                   x.kind = "subnets" /\ x.parent = s1.id}}]]

EnsureKinds ==
    {"projects", "networks", "security_groups", "domains", "flavors", "images",
     "provider_networks"}

\* the id of the project "a" the project-scoped resources live in
ProjectIdIn(rem) == (CHOOSE r \in rem : r.kind = "projects" /\ r.name = "a").id

\* one ensure call of a kind
Ensure(kind, st, name, extra) ==
    CASE kind = "projects"          -> EnsureProject(st, name)
      [] kind = "networks"          -> EnsureNetwork(st, ProjectIdIn(st.rem), name, extra)
      [] kind = "security_groups"   -> EnsureSecurityGroups(st, ProjectIdIn(st.rem), name, extra)
      [] kind = "domains"           -> EnsureDomain(st, name)
      [] kind = "flavors"           -> EnsureFlavor(st, name, extra)
      [] kind = "images"            -> EnsureImage(st, name)
      [] kind = "provider_networks" -> EnsureProviderNetwork(st, name, extra)


(***************************************************************************)
(* One caller running the ensure of a kind twice with the same spec and no *)
(* remote change in between.                                               *)
(***************************************************************************)
EnsureNames == {"a", "b"}

\* the cloud in which project "a" and its group exist
ProjectCloud == EnsureProject(Cloud({}, 1), "a").st

\* the clouds an ensure run can start from: the project alone, or with the
\* named resource of the kind already there (left by an earlier run)
InitialClouds(kind, name) ==
    {ProjectCloud, Ensure(kind, ProjectCloud, name, FALSE).st}

InitEnsure ==
    /\ \E kind \in EnsureKinds, name \in EnsureNames, extra \in BOOLEAN :
         /\ ens = [NoEns EXCEPT !.kind = kind, !.name = name, !.extra = extra]
         /\ \E cloud \in InitialClouds(kind, name) :
                /\ remote = cloud.rem
                /\ nextId = cloud.nid
    /\ configmap = NoConfigMap
    /\ CpInit
    /\ RegIdle
    /\ ClientIdle
    /\ LimIdle
    /\ CondIdle
    /\ RegSeqIdle
    /\ RunIdle
    /\ GaugeIdle
    /\ FedIdle
    /\ ReconIdle
    /\ TdIdle

\* the first ensure(x)
EnsureFirst ==
    /\ ens.run = 0
    /\ LET out == Ensure(ens.kind, Cloud(remote, nextId), ens.name, ens.extra)
       IN  /\ remote' = out.st.rem
           /\ nextId' = out.st.nid
           /\ ens' = [ens EXCEPT !.run = 1, !.ids1 = out.ids,
                                 !.issued1 = out.st.issued, !.rem1 = out.st.rem]
    /\ UNCHANGED nonEnsVars

\* the second ensure(x)
EnsureSecond ==
    /\ ens.run = 1
    /\ LET out == Ensure(ens.kind, Cloud(remote, nextId), ens.name, ens.extra)
       IN  /\ remote' = out.st.rem
           /\ nextId' = out.st.nid
           /\ ens' = [ens EXCEPT !.run = 2, !.ids2 = out.ids, !.issued2 = out.st.issued]
    /\ UNCHANGED nonEnsVars

NextEnsure == EnsureFirst \/ EnsureSecond

SpecEnsure == InitEnsure /\ [][NextEnsure]_vars

RepeatedRequests == {"create_security_group_rule", "create_flavor_extra_specs"}

MaxGeneration == 3

ReconKinds == {"projects", "domains", "flavors", "images"}

\* status.get("phase")
Phase(status) == IF "phase" \in DOMAIN status THEN status["phase"] ELSE "none"

\* status.get("conditions", [])
Conditions(status) ==
    IF "conditions" \in DOMAIN status THEN status["conditions"] ELSE <<>>

Condition(condition_type, condition_status, reason) ==
    [type |-> condition_type, status |-> condition_status, reason |-> reason]

\* a set-condition that appends without looking for the type
AppendPatchCondition(patch, condition_type, condition_status, reason) ==
    DictPut(patch, "conditions",
            Append(Conditions(patch), Condition(condition_type, condition_status, reason)))

\* _set_patch_condition: rewrite the first entry of the type, else append
SetPatchCondition(patch, condition_type, condition_status, reason) ==
    LET conditions == Conditions(patch)
        hits == {i \in DOMAIN conditions : conditions[i].type = condition_type}
        first == CHOOSE i \in hits : \A j \in hits : i <= j
        entry == Condition(condition_type, condition_status, reason)
    IN  DictPut(patch, "conditions",
                IF hits # {} THEN [conditions EXCEPT ![first] = entry]
                             ELSE Append(conditions, entry))

\* kopf sends patch.status as a merge patch: a key set replaces the old
\* value (a list as a whole), a key set to None is removed
ApplyPatch(status, patch, nulls) ==
    [k \in ((DOMAIN status) \cup (DOMAIN patch)) \ nulls |->
        IF k \in DOMAIN patch THEN patch[k] ELSE status[k]]

\* for key in (...): if key in status and key not in patch.status: copy
Preserve(status, patch, keys) ==
    [k \in (DOMAIN patch) \cup (keys \cap DOMAIN status) |->
        IF k \in DOMAIN patch THEN patch[k] ELSE status[k]]

\* what one handler run leaves behind: the status patch, the remote, the
\* registry, and whether the handler returned without raising
Outcome(patch, nulls, st, cm, done) ==
    [patch |-> patch, nulls |-> nulls, rem |-> st.rem, nid |-> st.nid,
     cm |-> cm, done |-> done]

\* the number of characters of the text of an exception the remote raises
ExceptionLength == 250

\* the slice bound of str(e)[:200]
MessageLimit == 200

\* a message, as its length
Sliced(length, limit) == IF length <= limit THEN length ELSE limit

\* the first condition of the type gets the message
WithMessage(patch, condition_type, message) ==
    LET conditions == Conditions(patch)
        hits == {i \in DOMAIN conditions : conditions[i].type = condition_type}
        first == CHOOSE i \in hits : \A j \in hits : i <= j
    IN  DictPut(patch, "conditions",
                [conditions EXCEPT ![first] = conditions[first] @@ [message |-> message]])

\* an except clause that records str(e) whole
ErrorPatchWhole(patch, condition_type) ==
    WithMessage(SetPatchCondition(DictPut(patch, "phase", "Error"),
                                  condition_type, "False", "Error"),
                condition_type, ExceptionLength)

\* except Exception: phase Error and a False condition with str(e)[:200]
ErrorPatch(patch, condition_type) ==
    WithMessage(SetPatchCondition(DictPut(patch, "phase", "Error"),
                                  condition_type, "False", "Error"),
                condition_type, Sliced(ExceptionLength, MessageLimit))

\* raise kopf.PermanentError: the except clause for it re-raises, the patch
\* built so far is applied, and kopf does not run the handler again for
\* this spec
Permanent(patch, st, cm) == Outcome(patch, {}, st, cm, TRUE)

\* if not project_name or not domain
ProjectFieldMissing(c) == c.specName = "" \/ c.domain = ""

\* if not domain_name
DomainFieldMissing(c) == c.specName = ""

\* create_project, for a spec with optional quotas
create_project(c, st, cm, ok) ==
    LET p0 == [phase |-> "Provisioning", conditions |-> <<>>,
               observedGeneration |-> c.generation]
        p1 == SetPatchCondition(p0, "ProjectReady", "False", "Creating")
        e  == EnsureProject(st, c.specName)
        p2 == SetPatchCondition(
                  DictPut(DictPut(p1, "projectId", e.ids.projectId),
                          "groupId", e.ids.groupId),
                  "ProjectReady", "True", "Created")
        p3 == IF c.quotas
              THEN SetPatchCondition(
                       SetPatchCondition(p2, "QuotasReady", "False", "Applying"),
                       "QuotasReady", "True", "Applied")
              ELSE p2
    IN  IF ProjectFieldMissing(c)
        THEN Permanent(p0, st, cm)
        ELSE IF ok
        THEN Outcome(DictPut(p3, "phase", "Ready"), {}, e.st, cm, TRUE)
        ELSE Outcome(ErrorPatch(p1, "Ready"), {}, st, cm, FALSE)

\* update_project; without a projectId it calls create_project without
\* the body argument, which raises TypeError inside the try block
update_project(c, st, cm, changed, ok) ==
    LET p0 == Preserve(c.status,
                       [phase |-> "Provisioning", observedGeneration |-> c.generation],
                       {"projectId", "groupId", "conditions"})
        p1 == IF changed = "quotas"
              THEN SetPatchCondition(p0, "QuotasReady", "True", "Updated")
              ELSE p0
    IN  IF ProjectFieldMissing(c)
        THEN Permanent(p0, st, cm)
        ELSE IF "projectId" \notin DOMAIN c.status \/ ~ok
        THEN Outcome(ErrorPatch(p0, "Ready"), {}, st, cm, FALSE)
        ELSE Outcome(DictPut(p1, "phase", "Ready"), {}, st, cm, TRUE)

\* reconcile_project without its first check: the comparison with the remote
\* runs in every phase
reconcile_project_any_phase(c, st, cm) ==
    LET found == FindIn(st.rem, "projects", c.specName, 0)
        project == CHOOSE r \in found : TRUE
        groups == FindIn(st.rem, "groups", make_group_name(c.specName), 0)
        group == CHOOSE r \in groups : TRUE
    IN  IF found = {}
        THEN Outcome([phase |-> "Pending"], {"projectId", "groupId"}, st, cm, FALSE)
        ELSE IF "projectId" \notin DOMAIN c.status \/ project.id # c.status["projectId"]
        THEN IF groups = {}
             THEN Outcome([phase |-> "Pending", projectId |-> project.id],
                          {"groupId"}, st, cm, FALSE)
             ELSE Outcome([phase |-> "Pending", projectId |-> project.id,
                           groupId |-> group.id], {}, st, cm, FALSE)
        ELSE Outcome(EmptyDict, {}, st, cm, FALSE)

\* reconcile_project, for a spec without federation
reconcile_project(c, st, cm) ==
    IF Phase(c.status) # "Ready"
    THEN Outcome(EmptyDict, {}, st, cm, FALSE)
    ELSE reconcile_project_any_phase(c, st, cm)

\* create_domain_handler
create_domain_handler(c, st, cm, ok) ==
    LET p0 == [phase |-> "Provisioning", conditions |-> <<>>,
               observedGeneration |-> c.generation]
        p1 == SetPatchCondition(p0, "DomainReady", "False", "Creating")
        e  == EnsureDomain(st, c.specName)
        p2 == SetPatchCondition(DictPut(p1, "domainId", e.ids.domainId),
                                "DomainReady", "True", "Created")
    IN  IF DomainFieldMissing(c)
        THEN Permanent(p0, st, cm)
        ELSE IF ok
        THEN Outcome(DictPut(p2, "phase", "Ready"), {}, e.st,
                     Register(cm, "domains", c.specName, e.ids.domainId, c.name), TRUE)
        ELSE Outcome(ErrorPatch(p1, "DomainReady"), {}, st, cm, FALSE)

\* update_domain_handler; without a domainId it calls
\* create_domain_handler without the body argument: TypeError
update_domain_handler(c, st, cm, ok) ==
    LET p0 == Preserve(c.status,
                       [phase |-> "Provisioning", observedGeneration |-> c.generation],
                       {"domainId", "conditions"})
        p1 == SetPatchCondition(p0, "DomainReady", "True", "Updated")
    IN  IF DomainFieldMissing(c)
        THEN Permanent(p0, st, cm)
        ELSE IF "domainId" \notin DOMAIN c.status \/ ~ok
        THEN Outcome(ErrorPatch(p0, "DomainReady"), {}, st, cm, FALSE)
        ELSE Outcome(DictPut(p1, "phase", "Ready"), {}, st, cm, TRUE)

\* the timers of domains and flavors: a missing resource clears the id,
\* another id replaces it, both with phase Pending
ReconcileById(c, st, cm, kind, key) ==
    LET found == FindIn(st.rem, kind, c.specName, 0)
        live == CHOOSE r \in found : TRUE
    IN  IF found = {}
        THEN Outcome([phase |-> "Pending"], {key}, st, cm, FALSE)
        ELSE IF key \notin DOMAIN c.status \/ live.id # c.status[key]
        THEN Outcome(DictPut([phase |-> "Pending"], key, live.id), {}, st, cm, FALSE)
        ELSE Outcome(EmptyDict, {}, st, cm, FALSE)

reconcile_domain(c, st, cm) == ReconcileById(c, st, cm, "domains", "domainId")


\* the characters of the path elements a Flavor or Project diff can hold
FieldChars ==
    ("spec" :> <<"s", "p", "e", "c">>) @@
    ("vcpus" :> <<"v", "c", "p", "u", "s">>) @@
    ("extraSpecs" :> <<"e", "x", "t", "r", "a", "S", "p", "e", "c", "s">>) @@
    ("hw:cpu_policy" :> <<"h", "w", ":", "c", "p", "u", "_", "p", "o", "l", "i", "c", "y">>) @@
    ("quota:disk_total_iops_sec" :> <<"q", "u", "o", "t", "a", ":", "d", "i", "s", "k", "_", "t", "o", "t", "a", "l", "_", "i", "o", "p", "s", "_", "s", "e", "c">>) @@
    ("description" :> <<"d", "e", "s", "c", "r", "i", "p", "t", "i", "o", "n">>) @@
    ("quotas" :> <<"q", "u", "o", "t", "a", "s">>) @@
    ("compute" :> <<"c", "o", "m", "p", "u", "t", "e">>) @@
    ("instances" :> <<"i", "n", "s", "t", "a", "n", "c", "e", "s">>) @@
    ("network" :> <<"n", "e", "t", "w", "o", "r", "k">>) @@
    ("networks" :> <<"n", "e", "t", "w", "o", "r", "k", "s">>) @@
    ("securityGroups" :> <<"s", "e", "c", "u", "r", "i", "t", "y", "G", "r", "o", "u", "p", "s">>)

\* IMMUTABLE_FLAVOR_FIELDS, each as its characters
IMMUTABLE_FLAVOR_FIELDS ==
    {<<"v", "c", "p", "u", "s">>,
     <<"r", "a", "m">>,
     <<"d", "i", "s", "k">>,
     <<"e", "p", "h", "e", "m", "e", "r", "a", "l">>,
     <<"s", "w", "a", "p">>,
     <<"i", "s", "P", "u", "b", "l", "i", "c">>}

\* the field paths of the edits a user makes to a Flavor spec: a core
\* property, and two entries of extraSpecs
FlavorEdits ==
    {<<"spec", "vcpus">>,
     <<"spec", "extraSpecs", "hw:cpu_policy">>,
     <<"spec", "extraSpecs", "quota:disk_total_iops_sec">>}

RECURSIVE FieldPath(_)
\* ".".join(str(f) for f in field)
FieldPath(field) ==
    IF field = <<>> THEN <<>>
    ELSE IF Len(field) = 1 THEN FieldChars[field[1]]
    ELSE FieldChars[field[1]] \o <<".">> \o FieldPath(Tail(field))

\* a in b, for strings as characters
IsSubstring(a, b) ==
    \E i \in 0..(Len(b) - Len(a)) : SubSeq(b, i + 1, i + Len(a)) = a

\* flavor_needs_recreate: some immutable field name occurs in some field path
flavor_needs_recreate(diff) ==
    \E field \in diff :
       \E immutable_field \in IMMUTABLE_FLAVOR_FIELDS :
          IsSubstring(immutable_field, FieldPath(field))

\* create_flavor_handler
create_flavor_handler(c, st, cm, ok) ==
    LET p0 == [phase |-> "Provisioning", conditions |-> <<>>]
        p1 == SetPatchCondition(p0, "FlavorReady", "False", "Creating")
        e  == EnsureFlavor(st, c.specName, FALSE)
        p2 == SetPatchCondition(DictPut(p1, "flavorId", e.ids.flavorId),
                                "FlavorReady", "True", "Created")
    IN  IF ok
        THEN Outcome(DictPut(p2, "phase", "Ready"), {}, e.st,
                     Register(cm, "flavors", c.specName, e.ids.flavorId, c.name), TRUE)
        ELSE Outcome(ErrorPatch(p1, "FlavorReady"), {}, st, cm, FALSE)

\* the places where a run of update_flavor_handler can fail: nowhere, at its
\* first remote call, or in ensure_flavor after the old flavor is gone
FlavorFailPoints == {"none", "first", "create"}

\* update_flavor_handler with a recreate branch that keeps the old flavor
update_flavor_handler_keeping(c, st, cm, recreate, fail) ==
    LET p0 == Preserve(c.status, [phase |-> "Provisioning"], {"flavorId", "conditions"})
        e  == EnsureFlavor(st, c.specName, FALSE)
        cm1 == Register(Unregister(cm, "flavors", c.specName),
                        "flavors", c.specName, e.ids.flavorId, c.name)
        p1 == SetPatchCondition(DictPut(p0, "flavorId", e.ids.flavorId),
                                "FlavorReady", "True", "Recreated")
        p2 == SetPatchCondition(p0, "FlavorReady", "True", "Updated")
    IN  IF "flavorId" \notin DOMAIN c.status \/ fail # "none"
        THEN Outcome(ErrorPatch(p0, "FlavorReady"), {}, st, cm, FALSE)
        ELSE IF recreate
        THEN Outcome(DictPut(p1, "phase", "Ready"), {}, e.st, cm1, TRUE)
        ELSE Outcome(DictPut(p2, "phase", "Ready"), {}, st, cm, TRUE)

\* update_flavor_handler; without a flavorId it calls
\* create_flavor_handler without the body argument: TypeError.  A change of
\* an immutable property deletes the flavor, unregisters it, and creates and
\* registers it again; a failure in between leaves what was done so far
update_flavor_handler(c, st, cm, recreate, fail) ==
    LET p0 == Preserve(c.status, [phase |-> "Provisioning"], {"flavorId", "conditions"})
        gone == [st EXCEPT !.rem = RemoteDelete(st.rem, "flavors", c.status["flavorId"])]
        cm0 == Unregister(cm, "flavors", c.specName)
        e  == EnsureFlavor(gone, c.specName, FALSE)
        cm1 == Register(cm0, "flavors", c.specName, e.ids.flavorId, c.name)
        p1 == SetPatchCondition(DictPut(p0, "flavorId", e.ids.flavorId),
                                "FlavorReady", "True", "Recreated")
        p2 == SetPatchCondition(p0, "FlavorReady", "True", "Updated")
    IN  IF "flavorId" \notin DOMAIN c.status \/ fail = "first"
        THEN Outcome(ErrorPatch(p0, "FlavorReady"), {}, st, cm, FALSE)
        ELSE IF recreate
        THEN IF fail = "create"
             THEN Outcome(ErrorPatch(p0, "FlavorReady"), {}, gone, cm0, FALSE)
             ELSE Outcome(DictPut(p1, "phase", "Ready"), {}, e.st, cm1, TRUE)
        ELSE IF fail = "create"
        THEN Outcome(ErrorPatch(p0, "FlavorReady"), {}, st, cm, FALSE)
        ELSE Outcome(DictPut(p2, "phase", "Ready"), {}, st, cm, TRUE)

reconcile_flavor(c, st, cm) == ReconcileById(c, st, cm, "flavors", "flavorId")

\* the import states an image can report
UploadStates == {"active", "importing", "killed", "deleted"}

\* create_image_handler, entered with the patch its caller built.  An
\* external image is looked up and never registered; a managed image is
\* created, registered, and Ready only once its import is active
create_image_handler(c, patch, st, cm, upload, ok) ==
    LET p0 == DictPut(DictPut(patch, "phase", "Provisioning"), "conditions", <<>>)
        found == FindIn(st.rem, "images", c.specName, 0)
        existing == CHOOSE r \in found : TRUE
        x1 == SetPatchCondition(p0, "ImageReady", "False", "Configuring")
        x2 == SetPatchCondition(
                  DictPut(DictPut(x1, "imageId", existing.id), "uploadStatus", "active"),
                  "ImageReady", "True", "Configured")
        m1 == SetPatchCondition(p0, "ImageReady", "False", "Creating")
        e  == EnsureImage(st, c.specName)
        m2 == DictPut(DictPut(m1, "imageId", e.ids.imageId), "uploadStatus", upload)
        cm1 == Register(cm, "images", c.specName, e.ids.imageId, c.name)
    IN  IF ~ok
        THEN Outcome(ErrorPatch(IF c.external THEN x1 ELSE m1, "ImageReady"),
                     {}, st, cm, FALSE)
        ELSE IF c.external
        THEN IF found = {}
             THEN Outcome(DictPut(SetPatchCondition(x1, "ImageReady", "False", "NotFound"),
                                  "phase", "Pending"), {}, st, cm, FALSE)
             ELSE Outcome(DictPut(x2, "phase", "Ready"), {}, st, cm, TRUE)
        ELSE IF upload = "active"
        THEN Outcome(DictPut(SetPatchCondition(m2, "ImageReady", "True", "Active"),
                             "phase", "Ready"), {}, e.st, cm1, TRUE)
        ELSE Outcome(SetPatchCondition(m2, "ImageReady", "False", "Importing"),
                     {}, e.st, cm1, TRUE)

\* update_image_handler; without an imageId it runs create_image_handler
\* on its own patch, and an exception leaving that call is caught again here
update_image_handler(c, st, cm, upload, ok) ==
    LET p0 == Preserve(c.status, [phase |-> "Provisioning"],
                       {"imageId", "uploadStatus", "checksum", "sizeBytes", "conditions"})
        made == create_image_handler(c, p0, st, cm, upload, ok)
        p1 == SetPatchCondition(p0, "ImageReady", "True", "Updated")
    IN  IF "imageId" \notin DOMAIN c.status
        THEN IF made.done
             THEN made
             ELSE [made EXCEPT !.patch = ErrorPatch(made.patch, "ImageReady")]
        ELSE IF ~ok
        THEN Outcome(ErrorPatch(p0, "ImageReady"), {}, st, cm, FALSE)
        ELSE Outcome(DictPut(p1, "phase", "Ready"), {}, st, cm, TRUE)

\* the status entries of an image that reports its checksum and size
ImageSized(patch, sized) ==
    IF sized THEN DictPut(DictPut(patch, "checksum", "sum"), "sizeBytes", 1) ELSE patch

\* poll_image_status with a failed import taken for one still running
poll_image_status_lenient(c, st, cm, upload, sized) ==
    LET live == {r \in st.rem : r.kind = "images" /\ r.id = c.status["imageId"]}
        p0 == ImageSized([uploadStatus |-> upload], sized)
    IN  IF Phase(c.status) \notin {"Provisioning", "Pending"}
        THEN Outcome(EmptyDict, {}, st, cm, FALSE)
        ELSE IF "imageId" \notin DOMAIN c.status
        THEN Outcome(EmptyDict, {}, st, cm, FALSE)
        ELSE IF live = {}
        THEN Outcome([phase |-> "Pending"], {"imageId", "uploadStatus"}, st, cm, FALSE)
        ELSE IF upload = "active"
        THEN Outcome(DictPut(SetPatchCondition(p0, "ImageReady", "True", "Active"),
                             "phase", "Ready"), {}, st, cm, FALSE)
        ELSE Outcome(SetPatchCondition(p0, "ImageReady", "False", "Importing"),
                     {}, st, cm, FALSE)

\* poll_image_status: every call works on a patch of its own; sized says
\* whether the image reports a checksum and a size
poll_image_status(c, st, cm, upload, sized) ==
    LET live == {r \in st.rem : r.kind = "images" /\ r.id = c.status["imageId"]}
        p0 == ImageSized([uploadStatus |-> upload], sized)
    IN  IF Phase(c.status) \notin {"Provisioning", "Pending"}
        THEN Outcome(EmptyDict, {}, st, cm, FALSE)
        ELSE IF "imageId" \notin DOMAIN c.status
        THEN Outcome(EmptyDict, {}, st, cm, FALSE)
        ELSE IF live = {}
        THEN Outcome([phase |-> "Pending"], {"imageId", "uploadStatus"}, st, cm, FALSE)
        ELSE IF upload = "active"
        THEN Outcome(DictPut(SetPatchCondition(p0, "ImageReady", "True", "Active"),
                             "phase", "Ready"), {}, st, cm, FALSE)
        ELSE IF upload \in {"killed", "deleted"}
        THEN Outcome(DictPut(SetPatchCondition(p0, "ImageReady", "False", "ImportFailed"),
                             "phase", "Error"), {}, st, cm, FALSE)
        ELSE Outcome(SetPatchCondition(p0, "ImageReady", "False", "Importing"),
                     {}, st, cm, FALSE)

\* reconcile_image: an external image in Pending is looked up again; a
\* Ready image is compared with the remote
reconcile_image(c, st, cm) ==
    LET found == FindIn(st.rem, "images", c.specName, 0)
        image == CHOOSE r \in found : TRUE
        retry == SetPatchCondition(
                     [imageId |-> image.id, uploadStatus |-> "active", phase |-> "Ready"],
                     "ImageReady", "True", "Configured")
        lost == SetPatchCondition([phase |-> "Pending"], "ImageReady", "False", "NotFound")
    IN  IF c.external /\ Phase(c.status) = "Pending"
        THEN IF found # {} THEN Outcome(retry, {}, st, cm, FALSE)
                           ELSE Outcome(EmptyDict, {}, st, cm, FALSE)
        ELSE IF Phase(c.status) # "Ready"
        THEN Outcome(EmptyDict, {}, st, cm, FALSE)
        ELSE IF found = {}
        THEN IF c.external
             THEN Outcome(lost, {"imageId"}, st, cm, FALSE)
             ELSE Outcome([phase |-> "Pending"], {"imageId"}, st, cm, FALSE)
        ELSE IF "imageId" \notin DOMAIN c.status \/ image.id # c.status["imageId"]
        THEN Outcome([phase |-> "Pending", imageId |-> image.id], {}, st, cm, FALSE)
        ELSE Outcome(EmptyDict, {}, st, cm, FALSE)


\* ---------------------------------------------------------------------
\* SpecRecon: one CR, its spec changes, its handlers and timers, and a
\* remote that other actors change
\* ---------------------------------------------------------------------

\* metadata.name of the CR; spec.name is "a" in every CR
ReconNames == {"a", "b"}

InitRecon ==
    /\ \E kind \in ReconKinds, name \in ReconNames, external \in BOOLEAN,
          quotas \in BOOLEAN, present \in BOOLEAN :
         /\ external => kind = "images"
         /\ quotas => kind = "projects"
         /\ present => external
         /\ cr = [kind |-> kind, name |-> name, specName |-> "a",
                  domain |-> "default", external |-> external, quotas |-> quotas, generation |-> 1,
                  created |-> FALSE, handled |-> 0, diff |-> {},
                  status |-> EmptyDict]
         /\ remote = IF present
                     THEN {[kind |-> "images", name |-> "a", id |-> 1, parent |-> 0]}
                     ELSE {}
         /\ nextId = IF present THEN 2 ELSE 1
    /\ configmap = NoConfigMap
    /\ CpInit
    /\ RegIdle
    /\ ClientIdle
    /\ LimIdle
    /\ CondIdle
    /\ RegSeqIdle
    /\ RunIdle
    /\ GaugeIdle
    /\ FedIdle
    /\ EnsIdle
    /\ TdIdle

\* kopf after a handler run: the patch is applied whether or not the
\* handler raised; a handler that returned is not run again for this
\* generation
Deliver(out) ==
    /\ out.nid <= MaxIds + 1
    /\ cr' = [cr EXCEPT !.status = ApplyPatch(cr.status, out.patch, out.nulls),
                        !.created = cr.created \/ out.done,
                        !.handled = IF out.done THEN cr.generation ELSE cr.handled,
                        !.diff = IF out.done THEN {} ELSE cr.diff]
    /\ remote' = out.rem
    /\ nextId' = out.nid
    /\ configmap' = out.cm
    /\ UNCHANGED nonReconVars

\* a user edits the spec; the edit of a Flavor changes one field, and the
\* diff an update handler sees holds every edit since the last handler that
\* returned
SpecChange ==
    /\ cr.generation < MaxGeneration
    /\ \E field \in IF cr.kind = "flavors" THEN FlavorEdits ELSE {<<>>} :
         cr' = [cr EXCEPT !.generation = cr.generation + 1,
                          !.diff = IF field = <<>> THEN cr.diff ELSE cr.diff \cup {field}]
    /\ UNCHANGED <<configmap, cloudVars>>
    /\ UNCHANGED nonReconVars

\* another actor deletes the resource the CR names
RemoteLost ==
    /\ \E r \in remote :
         /\ r.kind = cr.kind
         /\ remote' = remote \ {r}
    /\ UNCHANGED <<configmap, nextId, cr>>
    /\ UNCHANGED nonReconVars

\* another actor creates a resource of the CR's kind and name
RemoteAppears ==
    /\ FindIn(remote, cr.kind, cr.specName, 0) = {}
    /\ nextId <= MaxIds
    /\ remote' = remote \cup {[kind |-> cr.kind, name |-> cr.specName,
                               id |-> nextId, parent |-> 0]}
    /\ nextId' = nextId + 1
    /\ UNCHANGED <<configmap, cr>>
    /\ UNCHANGED nonReconVars

NeedsCreate(kind) == cr.kind = kind /\ ~cr.created

NeedsUpdate(kind) == cr.kind = kind /\ cr.created /\ cr.handled < cr.generation

CreateProject ==
    /\ NeedsCreate("projects")
    /\ \E ok \in BOOLEAN :
         Deliver(create_project(cr, Cloud(remote, nextId), configmap, ok))

UpdateProject ==
    /\ NeedsUpdate("projects")
    /\ \E changed \in {"description", "quotas"}, ok \in BOOLEAN :
         Deliver(update_project(cr, Cloud(remote, nextId), configmap, changed, ok))

TimerProject ==
    /\ cr.kind = "projects"
    /\ Deliver(reconcile_project(cr, Cloud(remote, nextId), configmap))

CreateDomain ==
    /\ NeedsCreate("domains")
    /\ \E ok \in BOOLEAN :
         Deliver(create_domain_handler(cr, Cloud(remote, nextId), configmap, ok))

UpdateDomain ==
    /\ NeedsUpdate("domains")
    /\ \E ok \in BOOLEAN :
         Deliver(update_domain_handler(cr, Cloud(remote, nextId), configmap, ok))

TimerDomain ==
    /\ cr.kind = "domains"
    /\ Phase(cr.status) = "Ready"
    /\ Deliver(reconcile_domain(cr, Cloud(remote, nextId), configmap))

CreateFlavor ==
    /\ NeedsCreate("flavors")
    /\ \E ok \in BOOLEAN :
         Deliver(create_flavor_handler(cr, Cloud(remote, nextId), configmap, ok))

UpdateFlavor ==
    /\ NeedsUpdate("flavors")
    /\ \E fail \in FlavorFailPoints :
         Deliver(update_flavor_handler(cr, Cloud(remote, nextId), configmap,
                                       flavor_needs_recreate(cr.diff), fail))

TimerFlavor ==
    /\ cr.kind = "flavors"
    /\ Phase(cr.status) = "Ready"
    /\ Deliver(reconcile_flavor(cr, Cloud(remote, nextId), configmap))

CreateImage ==
    /\ NeedsCreate("images")
    /\ \E upload \in {"active", "importing"}, ok \in BOOLEAN :
         Deliver(create_image_handler(cr, EmptyDict, Cloud(remote, nextId),
                                      configmap, upload, ok))

UpdateImage ==
    /\ NeedsUpdate("images")
    /\ \E upload \in {"active", "importing"}, ok \in BOOLEAN :
         Deliver(update_image_handler(cr, Cloud(remote, nextId), configmap, upload, ok))

PollImage ==
    /\ cr.kind = "images"
    /\ \E upload \in UploadStates, sized \in BOOLEAN :
         Deliver(poll_image_status(cr, Cloud(remote, nextId), configmap, upload, sized))

TimerImage ==
    /\ cr.kind = "images"
    /\ Deliver(reconcile_image(cr, Cloud(remote, nextId), configmap))

NextRecon ==
    \/ SpecChange
    \/ RemoteLost
    \/ RemoteAppears
    \/ CreateProject
    \/ UpdateProject
    \/ TimerProject
    \/ CreateDomain
    \/ UpdateDomain
    \/ TimerDomain
    \/ CreateFlavor
    \/ UpdateFlavor
    \/ TimerFlavor
    \/ CreateImage
    \/ UpdateImage
    \/ PollImage
    \/ TimerImage

SpecRecon == InitRecon /\ [][NextRecon]_vars

\* the registry type that tracks the resource a status id names
KindOfKey ==
    [projectId |-> "projects", groupId |-> "groups", domainId |-> "domains",
     flavorId |-> "flavors", imageId |-> "images"]

\* registry.get(kind, name) is a record with this id and CR name
HasRecord(kind, name, id, cr_name) ==
    LET resources == GetResources(configmap, kind)
    IN  /\ name \in DOMAIN resources
        /\ resources[name] = Info(id, cr_name)

\* the name under which the resource of a status id exists on the remote
RemoteNameOfKey(key) ==
    IF key = "groupId" THEN make_group_name(cr.specName) ELSE cr.specName

\* C6: a Ready CR has, for every resource id in its status, a registry
\* record of the resource's kind and name with that id and the CR's name
C6_ReadyIdsRegistered ==
    Phase(cr.status) = "Ready" =>
        \A key \in (DOMAIN KindOfKey) \cap (DOMAIN cr.status) :
            HasRecord(KindOfKey[key], RemoteNameOfKey(key), cr.status[key], cr.name)

\* C7: a Ready CR has status.observedGeneration equal to
\* metadata.generation
C7_ReadyObservedGeneration ==
    Phase(cr.status) = "Ready" =>
        /\ "observedGeneration" \in DOMAIN cr.status
        /\ cr.status["observedGeneration"] = cr.generation

\* C8: status.conditions holds at most one entry per condition type
C8_OneConditionPerType ==
    \A i, j \in DOMAIN Conditions(cr.status) :
        Conditions(cr.status)[i].type = Conditions(cr.status)[j].type => i = j

\* the update handler of a project with quotas rewrote the QuotasReady
\* entry its create handler had appended after ProjectReady
C8_Witness ==
    /\ cr.quotas
    /\ Len(Conditions(cr.status)) = 2
    /\ Conditions(cr.status)[1].type = "ProjectReady"
    /\ Conditions(cr.status)[2] = Condition("QuotasReady", "True", "Updated")


\* ---------------------------------------------------------------------
\* SpecTeardown: a project CR is removed while the remote rejects calls
\* for a while; the delete handler and the project GC reclaim what the
\* operator created for it
\* ---------------------------------------------------------------------

\* retry_on_error(max_retries=3): a client call makes max_retries + 1
\* attempts before it raises
max_retries == 3

\* bound on the number of attempts the remote rejects before it recovers
MaxOutage == 9

\* one decorated client call during an outage of that many attempts:
\* whether it went through, and the outage left after it
ClientCall(outage) ==
    IF outage >= max_retries + 1
    THEN [ok |-> FALSE, outage |-> outage - (max_retries + 1)]
    ELSE [ok |-> TRUE, outage |-> 0]

\* a run of client deletes, each in its own try/except that logs the
\* failure and goes on to the next
RECURSIVE DeleteEach(_, _, _)
DeleteEach(targets, rem, outage) ==
    IF targets = <<>>
    THEN [rem |-> rem, outage |-> outage]
    ELSE LET made == ClientCall(outage)
         IN  DeleteEach(Tail(targets),
                        IF made.ok THEN RemoteDelete(rem, Head(targets).kind, Head(targets).id)
                                   ELSE rem,
                        made.outage)

Target(kind, id) == [kind |-> kind, id |-> id]

\* a teardown that starts from the network
DeleteNetworkTargetsNetworkFirst(network_status) ==
    <<Target("networks", network_status["networkId"]),
      Target("subnets", network_status["subnetId"])>>
    \o (IF "routerId" \in DOMAIN network_status
        THEN <<Target("routers", network_status["routerId"]),
               Target("router_interfaces", network_status["routerId"])>>
        ELSE <<>>)

\* delete_network: router interface, router, subnet, network
DeleteNetworkTargets(network_status) ==
    (IF "routerId" \in DOMAIN network_status
     THEN <<Target("router_interfaces", network_status["routerId"]),
            Target("routers", network_status["routerId"])>>
     ELSE <<>>)
    \o <<Target("subnets", network_status["subnetId"]),
         Target("networks", network_status["networkId"])>>

\* delete_project_handler past its projectId check, for a spec without
\* federation: security groups, networks, then group and project
DeleteProjectTargets(status) ==
    (IF "securityGroups" \in DOMAIN status
     THEN <<Target("security_groups", status["securityGroups"]["id"])>>
     ELSE <<>>)
    \o (IF "networks" \in DOMAIN status
        THEN DeleteNetworkTargets(status["networks"])
        ELSE <<>>)
    \o (IF "groupId" \in DOMAIN status
        THEN <<Target("groups", status["groupId"])>>
        ELSE <<>>)
    \o <<Target("projects", status["projectId"])>>

\* collect_garbage without a registry: get_domain, then every tagged
\* project that no CR expects loses its group and itself
CollectGarbage(rem, outage, expected_projects) ==
    LET domain == ClientCall(outage)
        orphans == {r \in rem : r.kind = "projects" /\ r.name \notin expected_projects}
        orphan == CHOOSE r \in orphans : TRUE
        groups == FindIn(rem, "groups", make_group_name(orphan.name), 0)
        targets == (IF groups # {}
                    THEN <<Target("groups", (CHOOSE g \in groups : TRUE).id)>>
                    ELSE <<>>)
                   \o <<Target("projects", orphan.id)>>
    IN  IF ~domain.ok \/ orphans = {}
        THEN [rem |-> rem, outage |-> domain.outage]
        ELSE DeleteEach(targets, rem, domain.outage)

\* a Ready project CR with the resources its spec asked for
InitTeardown ==
    /\ \E name \in ReconNames, network \in BOOLEAN, router \in BOOLEAN,
          sg \in BOOLEAN, outage \in 0..MaxOutage :
         LET p == EnsureProject(Cloud({}, 1), "a")
             n == IF network
                  THEN EnsureNetwork(p.st, p.ids.projectId, "a", router)
                  ELSE [st |-> p.st, ids |-> EmptyDict]
             g == IF sg
                  THEN EnsureSecurityGroups(n.st, p.ids.projectId, "a", FALSE)
                  ELSE [st |-> n.st, ids |-> EmptyDict]
             s0 == [phase |-> "Ready", projectId |-> p.ids.projectId,
                    groupId |-> p.ids.groupId]
             s1 == IF network THEN DictPut(s0, "networks", n.ids) ELSE s0
             s2 == IF sg THEN DictPut(s1, "securityGroups", g.ids) ELSE s1
         IN  /\ router => network
             /\ cr = [NoCR EXCEPT !.kind = "projects", !.name = name, !.specName = "a",
                                  !.generation = 1, !.created = TRUE, !.handled = 1,
                                  !.status = s2]
             /\ remote = g.st.rem
             /\ nextId = g.st.nid
             /\ teardown = [stage |-> "live", outage |-> outage, owned |-> g.st.rem]
    /\ configmap = NoConfigMap
    /\ CpInit
    /\ RegIdle
    /\ ClientIdle
    /\ LimIdle
    /\ CondIdle
    /\ RegSeqIdle
    /\ RunIdle
    /\ GaugeIdle
    /\ FedIdle
    /\ EnsIdle

\* a user deletes the CR; the finalizer keeps it until the handler returns
UserDelete ==
    /\ teardown.stage = "live"
    /\ teardown' = [teardown EXCEPT !.stage = "deleting"]
    /\ UNCHANGED <<remote, cr>>
    /\ UNCHANGED nonTdVars

\* delete_project_handler: every sub-delete swallows its failure, so the
\* handler returns and kopf lets the CR go
DeleteProjectHandler ==
    /\ teardown.stage = "deleting"
    /\ LET after == DeleteEach(DeleteProjectTargets(cr.status), remote, teardown.outage)
       IN  /\ remote' = after.rem
           /\ teardown' = [teardown EXCEPT !.stage = "gone", !.outage = after.outage]
    /\ UNCHANGED cr
    /\ UNCHANGED nonTdVars

\* one tick of the project GC daemon, hosted by another project CR; a CR
\* being deleted is still listed
ProjectGcTick ==
    /\ teardown.stage # "idle"
    /\ LET expected_projects == IF teardown.stage = "gone" THEN {} ELSE {cr.specName}
           after == CollectGarbage(remote, teardown.outage, expected_projects)
       IN  /\ remote' = after.rem
           /\ teardown' = [teardown EXCEPT !.outage = after.outage]
    /\ UNCHANGED cr
    /\ UNCHANGED nonTdVars

\* the remote comes back while nobody calls it
RemoteRecovers ==
    /\ teardown.outage > 0
    /\ teardown' = [teardown EXCEPT !.outage = teardown.outage - 1]
    /\ UNCHANGED <<remote, cr>>
    /\ UNCHANGED nonTdVars

NextTeardown ==
    \/ UserDelete
    \/ DeleteProjectHandler
    \/ ProjectGcTick
    \/ RemoteRecovers

\* the handler is retried, the GC keeps ticking, the outage ends
SpecTeardown ==
    /\ InitTeardown
    /\ [][NextTeardown]_vars
    /\ WF_vars(DeleteProjectHandler)
    /\ WF_vars(ProjectGcTick)
    /\ WF_vars(RemoteRecovers)

\* the resources the operator created for the CR that are still remote
Leaked == teardown.owned \cap remote

\* C5: once the CR is removed, every remote resource the operator created
\* for it is eventually deleted
C5_RemovedCrReclaimed == (teardown.stage = "gone") ~> (Leaked = {})


\* ---------------------------------------------------------------------
\* SpecFedOps: one caller runs add_project_mapping and
\* remove_project_mapping calls one after the other
\* ---------------------------------------------------------------------

\* bound on the number of calls in a run
MaxOps == 3

\* spec.name values; "a.b" and "a-b" are distinct names
OpsProjects == {"a", "a.b", "a-b"}

\* a remove that writes whatever it found
RemoveWritesAlways(m, project_name) == TRUE

\* remove_project_mapping: len(new_rules) != len(current_rules)
RemoveWrites(m, project_name) ==
    LET keep(rule) == ~RuleMatchesGroup(rule, make_group_name(project_name))
    IN  Len(SelectSeq(CurrentRules(m), keep)) # Len(CurrentRules(m))

\* remove_project_mapping run without interruption
RemoveProjectMapping(m, project_name) ==
    LET keep(rule) == ~RuleMatchesGroup(rule, make_group_name(project_name))
    IN  IF RemoveWrites(m, project_name)
        THEN UpdateMapping(m, SelectSeq(CurrentRules(m), keep))
        ELSE m

NoOp == [op |-> "none", project_name |-> "none"]

InitFedOps ==
    /\ mapping \in InitialMappings
    /\ seq = [step |-> 0, op |-> "none", project_name |-> "none", users |-> <<>>,
              before |-> mapping, clock |-> 0, prev |-> NoOp]
    /\ fed = [t \in Callers |-> NoFedCall]
    /\ fedClock = 0
    /\ configmap = NoConfigMap
    /\ GcOnlyInit
    /\ RegIdle
    /\ ClientIdle
    /\ LimIdle
    /\ CondIdle
    /\ RegSeqIdle
    /\ RunIdle
    /\ GaugeIdle
    /\ EnsIdle
    /\ ReconIdle
    /\ TdIdle

\* what the run remembers of a call: the call, the mapping and the write
\* count before it, and the call before it
Called(op, project_name, users) ==
    [step |-> seq.step + 1, op |-> op, project_name |-> project_name,
     users |-> users, before |-> mapping, clock |-> fedClock,
     prev |-> [op |-> seq.op, project_name |-> seq.project_name]]

OpAdd(project_name, users) ==
    /\ seq.step < MaxOps
    /\ mapping' = AddProjectMapping(mapping, project_name, users)
    /\ fedClock' = IF users = <<>> THEN fedClock ELSE fedClock + 1
    /\ seq' = Called("add", project_name, users)
    /\ UNCHANGED fed
    /\ UNCHANGED nonFedVars

OpRemove(project_name) ==
    /\ seq.step < MaxOps
    /\ mapping' = RemoveProjectMapping(mapping, project_name)
    /\ fedClock' = IF RemoveWrites(mapping, project_name) THEN fedClock + 1 ELSE fedClock
    /\ seq' = Called("remove", project_name, <<>>)
    /\ UNCHANGED fed
    /\ UNCHANGED nonFedVars

NextFedOps ==
    \/ \E project_name \in OpsProjects, users \in UserLists : OpAdd(project_name, users)
    \/ \E project_name \in OpsProjects : OpRemove(project_name)

SpecFedOps == InitFedOps /\ [][NextFedOps]_vars

\* C11: after add(p, U); remove(p) the mapping has no rule for p's derived
\* group; a remove writes the mapping only when it dropped a rule, and
\* leaves an absent mapping absent
C11_RemoveAfterAdd ==
    seq.op = "remove" =>
        /\ (seq.prev = [op |-> "add", project_name |-> seq.project_name] =>
                RulesFor(mapping, seq.project_name) = <<>>)
        /\ (fedClock # seq.clock =>
                Len(CurrentRules(mapping)) < Len(CurrentRules(seq.before)))
        /\ (~seq.before.exists => ~mapping.exists)

\* a remove(p) right after an add(p, U) dropped the rule the add wrote and
\* kept the rule of another group
C11_Witness ==
    /\ seq.op = "remove"
    /\ seq.prev = [op |-> "add", project_name |-> seq.project_name]
    /\ RulesFor(seq.before, seq.project_name) # <<>>
    /\ RulesFor(mapping, seq.project_name) = <<>>
    /\ CurrentRules(mapping) # <<>>
    /\ fedClock = seq.clock + 1

\* C12: a sequential add(p, U) or remove(p) leaves the rule of every
\* project q with another spec.name, when q has one, as it was
C12_OtherRulesUnchanged ==
    seq.step > 0 =>
        \A q \in OpsProjects \ {seq.project_name} :
            RulesFor(seq.before, q) # <<>> =>
                RulesFor(mapping, q) = RulesFor(seq.before, q)


\* ---------------------------------------------------------------------
\* SpecTick: whole GC ticks on a registry and a remote that hold the
\* leftovers of removed CRs; gcLog records what each tick did, in order
\* ---------------------------------------------------------------------

\* bound on the number of ticks
MaxTicks == 2

\* {"id": ..., "cr_name": ..., "subnets": [...]}: a provider network's record
InfoWithSubnets(resource_id, cr_name, subnets) ==
    [id |-> resource_id, cr_name |-> cr_name, subnets |-> subnets]

\* a log entry: a remote delete and how it ended
Deleted(tick, kind, id, ok) ==
    [tick |-> tick, op |-> "delete", kind |-> kind, id |-> id, name |-> "", ok |-> ok]

\* a log entry: a registry.unregister call
Unregistered(tick, kind, name) ==
    [tick |-> tick, op |-> "unregister", kind |-> kind, id |-> 0, name |-> name, ok |-> TRUE]

\* a log entry: a name appended to the tick's result lists
Counted(tick, kind, name) ==
    [tick |-> tick, op |-> "count", kind |-> kind, id |-> 0, name |-> name, ok |-> TRUE]

\* the state a tick works on; fails are the deletes the remote rejects
TickState(rem, cm, log, tick, fails) ==
    [rem |-> rem, cm |-> cm, log |-> log, tick |-> tick, fails |-> fails]

\* one client delete inside the tick
TryDelete(ts, kind, id) ==
    LET ok == Target(kind, id) \notin ts.fails
    IN  [ts EXCEPT !.rem = IF ok THEN RemoteDelete(ts.rem, kind, id) ELSE ts.rem,
                   !.log = Append(ts.log, Deleted(ts.tick, kind, id, ok))]

RECURSIVE DeleteSubnets(_, _)
\* for subnet_id in orphan.get("subnets", []): try delete_subnet, log a failure
DeleteSubnets(ts, subnets) ==
    IF subnets = <<>> THEN ts
    ELSE DeleteSubnets(TryDelete(ts, "subnets", Head(subnets)), Tail(subnets))

\* delete_fn(client, orphan): _delete_provider_network deletes the recorded
\* subnets first; the other kinds are one client delete
DeleteFn(ts, kind, orphan) ==
    IF kind = "provider_networks" /\ "subnets" \in DOMAIN orphan
    THEN TryDelete(DeleteSubnets(ts, orphan.subnets), kind, orphan.id)
    ELSE TryDelete(ts, kind, orphan.id)

\* an unregister that does not look at how the delete ended
DeleteThenUnregisterAlways(ts, kind, orphan) ==
    LET done == DeleteFn(ts, kind, orphan)
    IN  [done EXCEPT !.cm = Unregister(done.cm, kind, orphan.name),
                     !.log = done.log \o <<Unregistered(ts.tick, kind, orphan.name),
                                           Counted(ts.tick, kind, orphan.name)>>]

\* try: delete_fn; registry.unregister; result.append  except: log the error
DeleteThenUnregister(ts, kind, orphan) ==
    LET done == DeleteFn(ts, kind, orphan)
    IN  IF done.log[Len(done.log)].ok
        THEN [done EXCEPT !.cm = Unregister(done.cm, kind, orphan.name),
                          !.log = done.log \o <<Unregistered(ts.tick, kind, orphan.name),
                                                Counted(ts.tick, kind, orphan.name)>>]
        ELSE done

RECURSIVE DeleteOrphans(_, _, _)
\* for orphan in orphans
DeleteOrphans(ts, kind, orphans) ==
    IF orphans = <<>> THEN ts
    ELSE DeleteOrphans(DeleteThenUnregister(ts, kind, Head(orphans)), kind, Tail(orphans))

RECURSIVE CollectClusterGarbage(_, _, _)
\* _collect_cluster_garbage from the i-th entry of resource_configs on
CollectClusterGarbage(ts, expected_crs, i) ==
    IF i > Len(resource_configs) THEN ts
    ELSE LET kind == resource_configs[i]
             orphans == GetOrphans(ts.cm, kind, expected_crs[kind])
         IN  CollectClusterGarbage(
                 DeleteOrphans([ts EXCEPT !.cm = AfterGetConfigMap(ts.cm)], kind, orphans),
                 expected_crs, i + 1)


\* the ConfigMap a federationRef names, with the keys get_federation_config
\* of the handlers reads
HandlerStyleData ==
    ("idp-name" :> "idp") @@ ("idp-remote-id" :> "issuer") @@ ("sso-domain" :> SsoDomain)

\* the same ConfigMap with upper-case keys
UpperStyleData ==
    ("IDP_NAME" :> "idp") @@ ("IDP_REMOTE_ID" :> "issuer") @@ ("SSO_DOMAIN" :> SsoDomain)

\* return None
NoFederationConfig == [found |-> FALSE, idp_name |-> "", sso_domain |-> ""]

\* get_federation_config_from_crs: the first CR with a federationRef whose
\* ConfigMap has a non-empty IDP_NAME; None otherwise
get_federation_config_from_crs(has_ref, data) ==
    IF has_ref /\ "IDP_NAME" \in DOMAIN data
    THEN [found |-> TRUE, idp_name |-> data["IDP_NAME"], sso_domain |-> data["SSO_DOMAIN"]]
    ELSE NoFederationConfig

\* registry.get_by_cr: the records of a type owned by a CR, in dict order
GetByCr(cm, resource_type, cr_name) ==
    LET resources == GetResources(cm, resource_type)
        ks == SelectSeq(SortedSeq(DOMAIN resources),
                        LAMBDA k : resources[k].cr_name = cr_name)
    IN  [i \in DOMAIN ks |-> [name |-> ks[i]] @@ resources[ks[i]]]

\* the tagged projects of a remote, as client.list_projects_with_tag returns them
TaggedIn(rem) ==
    LET ps == {r \in rem : r.kind = "projects"}
        ns == SortedSeq({r.name : r \in ps})
    IN  [i \in DOMAIN ns |-> CHOOSE r \in ps : r.name = ns[i]]

RECURSIVE RegistryOrphans(_, _)
\* collect_garbage, method 1: each orphan record's groups, then its project
RegistryOrphans(ts, orphans) ==
    IF orphans = <<>> THEN ts
    ELSE LET orphan == Head(orphans)
             groups == GetByCr(ts.cm, "groups", orphan.cr_name)
             g == DeleteOrphans(ts, "groups", groups)
         IN  RegistryOrphans(DeleteThenUnregister(g, "projects", orphan), Tail(orphans))

RECURSIVE TaggedOrphans(_, _, _)
\* collect_garbage, method 2: each tagged project that is neither handled
\* nor expected loses the group of its derived name, then itself
TaggedOrphans(ts, projects, skip) ==
    IF projects = <<>> THEN ts
    ELSE LET project == Head(projects)
             groups == FindIn(ts.rem, "groups", make_group_name(project.name), 0)
             g == IF groups # {}
                  THEN TryDelete(ts, "groups", (CHOOSE r \in groups : TRUE).id)
                  ELSE ts
             gone == TryDelete(g, "projects", project.id)
             counted == IF gone.log[Len(gone.log)].ok
                        THEN [gone EXCEPT !.log =
                                 Append(gone.log, Counted(ts.tick, "projects", project.name))]
                        ELSE gone
         IN  IF project.name \in skip
             THEN TaggedOrphans(ts, Tail(projects), skip)
             ELSE TaggedOrphans(counted, Tail(projects), skip)

RECURSIVE CleanupFederationMappings(_, _, _, _)
\* _cleanup_federation_mappings: remove_project_mapping for every orphaned
\* project, and an unregister when a registry was passed
CleanupFederationMappings(out, names, registry, tick) ==
    IF names = <<>> THEN out
    ELSE LET name == Head(names)
             cm1 == IF registry THEN Unregister(out.ts.cm, "federation_mappings", name)
                                ELSE out.ts.cm
             log1 == IF registry
                     THEN Append(out.ts.log, Unregistered(tick, "federation_mappings", name))
                     ELSE out.ts.log
         IN  CleanupFederationMappings(
                 [ts |-> [out.ts EXCEPT !.cm = cm1, !.log = log1],
                  mapping |-> RemoveProjectMapping(out.mapping, name)],
                 Tail(names), registry, tick)

\* collect_garbage(client, managed_domain, expected_projects,
\* federation_config, registry)
collect_garbage(ts, m, expected_projects, federation_config, registry) ==
    LET byRegistry == GetOrphans(ts.cm, "projects", expected_projects)
        handled == {byRegistry[i].name : i \in DOMAIN byRegistry}
        t1 == IF registry THEN RegistryOrphans(ts, byRegistry) ELSE ts
        skip == (IF registry THEN handled ELSE {}) \cup expected_projects
        tagged == TaggedIn(t1.rem)
        t2 == TaggedOrphans(t1, tagged, skip)
        orphaned_projects ==
            (IF registry THEN [i \in DOMAIN byRegistry |-> byRegistry[i].name] ELSE <<>>)
            \o SelectSeq([i \in DOMAIN tagged |-> tagged[i].name],
                         LAMBDA n : n \notin skip)
    IN  IF Target("get_domain", 0) \in ts.fails
        THEN [ts |-> ts, mapping |-> m]
        ELSE IF federation_config.found /\ orphaned_projects # <<>>
        THEN CleanupFederationMappings([ts |-> t2, mapping |-> m],
                                       orphaned_projects, registry, ts.tick)
        ELSE [ts |-> t2, mapping |-> m]


(***************************************************************************)
(* The GC ticks as whole iterations of the two daemons.  The state before  *)
(* the first tick is what earlier handler runs left: registry records,     *)
(* remote resources and mapping rules of CRs that are still there and of   *)
(* CRs that were removed without their delete handler finishing.           *)
(***************************************************************************)
\* bound: remote deletes that fail in one tick
MaxFails == 1

\* registry.register(type, name, id, cr_name, {"subnets": subnet_ids})
RegisterWithSubnets(cm, resource_type, name, resource_id, cr_name, subnets) ==
    SetResources(cm, resource_type,
        DictPut(GetResources(cm, resource_type), name,
                InfoWithSubnets(resource_id, cr_name, subnets)))

\* a remote resource
Resource(kind, name, id, parent) ==
    [kind |-> kind, name |-> name, id |-> id, parent |-> parent]

\* what the cluster handlers created: kind, CR name, id, recorded subnets
ClusterCreated ==
    <<[kind |-> "provider_networks", name |-> "a", id |-> 1, subnets |-> <<2, 3>>],
      [kind |-> "provider_networks", name |-> "b", id |-> 4, subnets |-> <<5>>],
      [kind |-> "images", name |-> "a", id |-> 6, subnets |-> <<>>],
      [kind |-> "flavors", name |-> "a", id |-> 7, subnets |-> <<>>],
      [kind |-> "domains", name |-> "a", id |-> 8, subnets |-> <<>>]>>

\* the Domain CR that hosts the cluster daemon and the Project CR that hosts
\* the project daemon, with what their create handlers left
HostCRs == {<<"domains", "b">>, <<"projects", "b">>}

HostRemote ==
    {Resource("domains", "b", 9, 0), Resource("projects", "b", 30, 0),
     Resource("groups", make_group_name("b"), 31, 0)}

HostConfigMap == Register(NoConfigMap, "domains", "b", 9, "b")

RECURSIVE RegisterCreated(_, _, _)
\* the registry after the create handlers of the chosen CRs
RegisterCreated(cm, fate, i) ==
    IF i > Len(ClusterCreated) THEN cm
    ELSE LET c == ClusterCreated[i]
             cm1 == IF fate[i] = "absent" THEN cm
                    ELSE IF c.kind = "provider_networks"
                    THEN RegisterWithSubnets(cm, c.kind, c.name, c.id, c.name, c.subnets)
                    ELSE Register(cm, c.kind, c.name, c.id, c.name)
         IN  RegisterCreated(cm1, fate, i + 1)

\* the remote resources of the chosen CRs
RemoteCreated(fate) ==
    UNION {LET c == ClusterCreated[i]
           IN  IF fate[i] = "absent" THEN {}
               ELSE {Resource(c.kind, c.name, c.id, 0)}
                    \cup {Resource("subnets", c.name, c.subnets[j], c.id) :
                             j \in DOMAIN c.subnets}
           : i \in DOMAIN ClusterCreated}

\* the history a tick leaves: what it did, and the state it started from
NoTicks ==
    [ticks |-> 0, scope |-> "none", log |-> <<>>, cm |-> NoConfigMap, rem |-> {},
     rules |-> NoMapping, has_ref |-> FALSE, data |-> EmptyDict]

InitOther ==
    /\ crEvents = 0
    /\ handler = [c \in CRUniverse |-> [pc |-> "none", id |-> 0]]
    /\ daemon = [d \in DaemonCRs |-> IdleDaemon("off")]
    /\ loopOwner = NoDaemon
    /\ nextId = 1
    /\ fed = [t \in Callers |-> NoFedCall]
    /\ fedClock = 0
    /\ seq = NoSeq
    /\ RegIdle
    /\ ClientIdle
    /\ LimIdle
    /\ CondIdle
    /\ RegSeqIdle
    /\ RunIdle
    /\ GaugeIdle
    /\ EnsIdle
    /\ ReconIdle
    /\ TdIdle

\* cluster CRs of which some were removed and left their records behind
InitClusterOrphans ==
    /\ \E fate \in [DOMAIN ClusterCreated -> {"absent", "live", "orphan"}] :
         /\ crs = HostCRs \cup {<<ClusterCreated[i].kind, ClusterCreated[i].name>> :
                                   i \in {j \in DOMAIN ClusterCreated : fate[j] = "live"}}
         /\ configmap = RegisterCreated(HostConfigMap, fate, 1)
         /\ remote = HostRemote \cup RemoteCreated(fate)
    /\ mapping = AddProjectMapping(NoMapping, "b", <<"u2">>)
    /\ gcLog = NoTicks

\* a Project CR a that was removed and left its project, group, and perhaps a
\* security group, a network, a mapping rule and the record of that rule
InitProjectOrphan ==
    /\ crs = HostCRs
    /\ \E sg, net, users, has_ref \in BOOLEAN, data \in {HandlerStyleData, UpperStyleData} :
         /\ remote = HostRemote
                \cup {Resource("projects", "a", 20, 0),
                      Resource("groups", make_group_name("a"), 21, 0)}
                \cup (IF sg THEN {Resource("security_groups", "default", 22, 20)} ELSE {})
                \cup (IF net THEN {Resource("networks", "net", 23, 20)} ELSE {})
         /\ mapping = IF users
                      THEN AddProjectMapping(AddProjectMapping(NoMapping, "a", <<"u1">>),
                                             "b", <<"u2">>)
                      ELSE AddProjectMapping(NoMapping, "b", <<"u2">>)
         /\ configmap = IF users
                        THEN Register(HostConfigMap, "federation_mappings", "a", 40, "a")
                        ELSE HostConfigMap
         /\ gcLog = [NoTicks EXCEPT !.has_ref = has_ref, !.data = data]

InitTick ==
    /\ InitClusterOrphans \/ InitProjectOrphan
    /\ InitOther

\* the remote deletes of a tick that may fail, and the domain lookup
FailSets ==
    {fs \in SUBSET ({Target(r.kind, r.id) : r \in remote} \cup {Target("get_domain", 0)}) :
        Cardinality(fs) <= MaxFails}

\* expected_crs of the cluster daemon: the CR names of each kind
ExpectedCrs == [kind \in {"domains", "flavors", "images", "provider_networks"} |-> CrNames(kind)]

TickStarted(scope) ==
    [gcLog EXCEPT !.ticks = gcLog.ticks + 1, !.scope = scope, !.cm = configmap,
                  !.rem = remote, !.rules = mapping]

\* one iteration of cluster_garbage_collector on the leader
ClusterGcTick ==
    /\ gcLog.ticks < MaxTicks
    /\ CrNames("domains") # {}
    /\ \E fails \in FailSets :
         LET out == CollectClusterGarbage(
                        TickState(remote, configmap, gcLog.log, gcLog.ticks + 1, fails),
                        ExpectedCrs, 1)
         IN  /\ remote' = out.rem
             /\ configmap' = out.cm
             /\ gcLog' = [TickStarted("cluster") EXCEPT !.log = out.log]
    /\ UNCHANGED <<crs, crEvents, handler, daemon, loopOwner, nextId>>
    /\ UNCHANGED <<regVars, fedVars, ensVars, reconVars, tdVars, clientVars, limVars, condVars, seqVars, runVars, gaugeVars>>

\* one iteration of garbage_collector on the leader: collect_garbage is
\* called without a registry
ProjectGcTickAll ==
    /\ gcLog.ticks < MaxTicks
    /\ CrNames("projects") # {}
    /\ \E fails \in FailSets :
         LET out == collect_garbage(
                        TickState(remote, configmap, gcLog.log, gcLog.ticks + 1, fails),
                        mapping, CrNames("projects"),
                        get_federation_config_from_crs(gcLog.has_ref, gcLog.data),
                        FALSE)
         IN  /\ remote' = out.ts.rem
             /\ configmap' = out.ts.cm
             /\ mapping' = out.mapping
             /\ gcLog' = [TickStarted("project") EXCEPT !.log = out.ts.log]
    /\ UNCHANGED <<crs, crEvents, handler, daemon, loopOwner, nextId>>
    /\ UNCHANGED <<fed, fedClock, seq>>
    /\ UNCHANGED <<regVars, ensVars, reconVars, tdVars, clientVars, limVars, condVars, seqVars, runVars, gaugeVars>>

NextTick ==
    \/ ClusterGcTick
    \/ ProjectGcTickAll

SpecTick == InitTick /\ [][NextTick]_vars


\* the entries of the log written by the latest tick, by index
LastTick == {i \in DOMAIN gcLog.log : gcLog.log[i].tick = gcLog.ticks}

IsDelete(i, kind, id) ==
    /\ gcLog.log[i].op = "delete"
    /\ gcLog.log[i].kind = kind
    /\ gcLog.log[i].id = id

\* the records of a kind that had no CR when the latest tick started
OrphanRecords(kind) ==
    LET resources == GetResources(gcLog.cm, kind)
    IN  {[name |-> n] @@ resources[n] :
            n \in {k \in DOMAIN resources : resources[k].cr_name \notin CrNames(kind)}}

\* the place of a kind in the order provider networks (with their subnets),
\* images, flavors, domains
ClusterRank(kind) ==
    CASE kind \in {"provider_networks", "subnets"} -> 1
      [] kind = "images" -> 2
      [] kind = "flavors" -> 3
      [] kind = "domains" -> 4
      [] OTHER -> 0

\* C15: in a cluster GC tick every orphaned provider network is deleted, with
\* each of its recorded subnets attempted before it, before any image, images
\* before flavors, and flavors before domains.
C15_ClusterOrder ==
    gcLog.scope = "cluster" =>
        /\ \A i, j \in LastTick :
              (/\ i < j
               /\ gcLog.log[i].op = "delete"
               /\ gcLog.log[j].op = "delete")
              => ClusterRank(gcLog.log[i].kind) <= ClusterRank(gcLog.log[j].kind)
        /\ \A o \in OrphanRecords("provider_networks") :
              \E k \in LastTick :
                 /\ IsDelete(k, "provider_networks", o.id)
                 /\ \A s \in DOMAIN o.subnets :
                       \E j \in LastTick : j < k /\ IsDelete(j, "subnets", o.subnets[s])
        /\ \A kind \in {"images", "flavors", "domains"} :
              \A o \in OrphanRecords(kind) : \E k \in LastTick : IsDelete(k, kind, o.id)

\* a cluster tick that deleted a recorded subnet, then its provider network,
\* then an image, and a domain after that
C15_Witness ==
    /\ gcLog.scope = "cluster"
    /\ \E k \in LastTick :
          /\ IsDelete(k, "provider_networks", 1)
          /\ \E j \in LastTick : j < k /\ IsDelete(j, "subnets", 3)
          /\ \E l \in LastTick :
                /\ k < l
                /\ IsDelete(l, "images", 6)
                /\ \E n \in LastTick : l < n /\ IsDelete(n, "domains", 8)


\* the record of a kind that holds an id when the latest tick started
RecordOf(kind, id) ==
    CHOOSE o \in OrphanRecords(kind) : o.id = id

\* the log entry after i is the unregister of the record that entry i deleted
UnregisterFollows(i, kind) ==
    /\ i + 1 \in LastTick
    /\ gcLog.log[i + 1].op = "unregister"
    /\ gcLog.log[i + 1].kind = kind
    /\ gcLog.log[i + 1].name = RecordOf(kind, gcLog.log[i].id).name

\* the log entry after the unregister counts the record as deleted
CountFollows(i, kind) ==
    /\ i + 2 \in LastTick
    /\ gcLog.log[i + 2].op = "count"
    /\ gcLog.log[i + 2].kind = kind
    /\ gcLog.log[i + 2].name = RecordOf(kind, gcLog.log[i].id).name

OwnedBy(project_id, kind) ==
    {r \in gcLog.rem : r.kind = kind /\ r.parent = project_id}

\* C13: when a project GC tick deletes an orphaned project, the project's
\* security groups were deleted before its networks, its networks before its
\* user group, and the group before the project.
C13_ProjectOrder ==
    gcLog.scope = "project" =>
        \A p \in LastTick :
           (gcLog.log[p].op = "delete" /\ gcLog.log[p].kind = "projects")
           => \E g \in LastTick :
                 /\ g < p
                 /\ gcLog.log[g].op = "delete"
                 /\ gcLog.log[g].kind = "groups"
                 /\ \A n \in OwnedBy(gcLog.log[p].id, "networks") :
                       \E j \in LastTick : j < g /\ IsDelete(j, "networks", n.id)
                 /\ \A sg \in OwnedBy(gcLog.log[p].id, "security_groups") :
                       \E i \in LastTick :
                          /\ i < g
                          /\ IsDelete(i, "security_groups", sg.id)
                          /\ \A j \in LastTick :
                                (gcLog.log[j].op = "delete" /\ gcLog.log[j].kind = "networks")
                                => i < j

\* the records of any kind that a CR name owns
RecordsOfCr(cm, cr_name) ==
    {<<kind, n>> \in RESOURCE_TYPES \X {"a", "b"} :
        /\ n \in DOMAIN GetResources(cm, kind)
        /\ GetResources(cm, kind)[n].cr_name = cr_name}

\* C14: after a project GC tick that found the orphaned project a (no Project
\* CR a) while a Project CR references the federation ConfigMap with the keys
\* idp-name, idp-remote-id and sso-domain, the registry holds no record of
\* any kind with cr_name a and the mapping has no rule for the group derived
\* from a.
C14_OrphanForgotten ==
    (/\ gcLog.scope = "project"
     /\ gcLog.has_ref
     /\ gcLog.data = HandlerStyleData
     /\ <<"projects", "a">> \notin crs
     /\ \E i \in LastTick : IsDelete(i, "projects", 20))
    => /\ RecordsOfCr(configmap, "a") = {}
       /\ RulesFor(mapping, "a") = <<>>


\* ---------------------------------------------------------------------
\* The drift timer of a Project CR, run on the state a behaviour of
\* SpecRecon has reached
\* ---------------------------------------------------------------------

\* status.get(key), with 0 for None
StatusGet(status, key) == IF key \in DOMAIN status THEN status[key] ELSE 0

\* the status after the patch of a timer run now
AfterTimer ==
    LET out == reconcile_project(cr, Cloud(remote, nextId), configmap)
    IN  ApplyPatch(cr.status, out.patch, out.nulls)

LiveProject == FindIn(remote, "projects", cr.specName, 0)

LiveGroup == FindIn(remote, "groups", make_group_name(cr.specName), 0)

\* the project is missing, or has another id than status.projectId
Drifted ==
    \/ LiveProject = {}
    \/ \E r \in LiveProject : r.id # StatusGet(cr.status, "projectId")

\* what the timer does outside the drifted Ready case
TimerLeavesAlone ==
    /\ Phase(cr.status) # "Ready" => AfterTimer = cr.status
    /\ (Phase(cr.status) = "Ready" /\ ~Drifted) =>
          /\ Phase(AfterTimer) = "Ready"
          /\ StatusGet(AfterTimer, "projectId") = StatusGet(cr.status, "projectId")
          /\ StatusGet(AfterTimer, "groupId") = StatusGet(cr.status, "groupId")
    /\ reconcile_project(cr, Cloud(remote, nextId), configmap).rem = remote

\* C17 as stated: the timer changes nothing unless the phase is Ready; a Ready
\* CR whose project is missing or has another id becomes Pending with
\* projectId and groupId cleared; with the same id nothing changes.
C17_TimerClearsIds ==
    cr.kind = "projects" =>
        /\ TimerLeavesAlone
        /\ (Phase(cr.status) = "Ready" /\ Drifted) =>
              /\ Phase(AfterTimer) = "Pending"
              /\ "projectId" \notin DOMAIN AfterTimer
              /\ "groupId" \notin DOMAIN AfterTimer

\* C17 amended: as above, except that when the project exists with another id
\* the timer writes the live project's id to projectId and the live group's
\* id to groupId (clearing groupId only when the group is missing); the ids
\* are cleared only when the project is missing.
C17_TimerAdoptsLiveIds ==
    cr.kind = "projects" =>
        /\ TimerLeavesAlone
        /\ (Phase(cr.status) = "Ready" /\ Drifted) =>
              /\ Phase(AfterTimer) = "Pending"
              /\ IF LiveProject = {}
                 THEN /\ "projectId" \notin DOMAIN AfterTimer
                      /\ "groupId" \notin DOMAIN AfterTimer
                 ELSE /\ \E r \in LiveProject : StatusGet(AfterTimer, "projectId") = r.id
                      /\ IF LiveGroup = {}
                         THEN "groupId" \notin DOMAIN AfterTimer
                         ELSE \E g \in LiveGroup : StatusGet(AfterTimer, "groupId") = g.id

\* the timer ran on a Ready CR whose project had been replaced: the CR is
\* Pending and holds the id of the live project
C17_Witness ==
    /\ cr.kind = "projects"
    /\ cr.created
    /\ Phase(cr.status) = "Pending"
    /\ \E r \in LiveProject : StatusGet(cr.status, "projectId") = r.id


\* ---------------------------------------------------------------------
\* SpecReconFair: SpecRecon with kopf's scheduling of a Project CR that has
\* been created: an update that is due is eventually run, and the timer
\* keeps firing
\* ---------------------------------------------------------------------
SpecReconFair ==
    /\ InitRecon
    /\ [][NextRecon]_vars
    /\ WF_vars(UpdateProject)
    /\ WF_vars(TimerProject)

\* a Ready Project CR whose projectId names no remote project any more
DriftedReady ==
    /\ cr.kind = "projects"
    /\ Phase(cr.status) = "Ready"
    /\ "projectId" \in DOMAIN cr.status
    /\ \A r \in remote : ~(r.kind = "projects" /\ r.id = cr.status["projectId"])

\* the CR is Ready and its ids are those of a live project and group
Repaired ==
    /\ cr.kind = "projects"
    /\ Phase(cr.status) = "Ready"
    /\ \E r \in LiveProject : StatusGet(cr.status, "projectId") = r.id
    /\ \E g \in LiveGroup : StatusGet(cr.status, "groupId") = g.id

\* C18: a Ready Project CR whose remote project was deleted out of band is,
\* unless its spec is changed meanwhile, eventually Ready again with the ids
\* of a live project and group (stated for a CR whose spec was never
\* changed: generation 1).
C18_DriftRepaired ==
    (DriftedReady /\ cr.generation = 1) ~> (Repaired \/ cr.generation # 1)


\* ---------------------------------------------------------------------
\* An update handler run on a CR whose status holds no id, compared with
\* the create handler run on the same CR and remote
\* ---------------------------------------------------------------------

\* the update's outcome u leaves the remote and the registry as the create's
\* outcome c does, and ends Ready with the same ids in the status
SameAsCreate(u, c, ids) ==
    LET statusU == ApplyPatch(cr.status, u.patch, u.nulls)
        statusC == ApplyPatch(cr.status, c.patch, c.nulls)
    IN  /\ u.rem = c.rem
        /\ u.cm = c.cm
        /\ Phase(statusU) = "Ready"
        /\ \A k \in ids : k \in DOMAIN statusU /\ StatusGet(statusU, k) = StatusGet(statusC, k)

\* an update is due and the status does not hold the id
UpdateWithoutId(kind, id) == NeedsUpdate(kind) /\ id \notin DOMAIN cr.status

\* C19: an update handler that finds no id in the status has the effect of
\* the create handler on the remote, the registry and the status, ending
\* Ready with the ids set when every remote call succeeds (Project, Domain,
\* Flavor and Image handlers).
C19_UpdateDelegatesToCreate ==
    LET st == Cloud(remote, nextId)
    IN  /\ UpdateWithoutId("projects", "projectId") =>
              \A changed \in {"description", "quotas"} :
                 SameAsCreate(update_project(cr, st, configmap, changed, TRUE),
                              create_project(cr, st, configmap, TRUE),
                              {"projectId", "groupId"})
        /\ UpdateWithoutId("domains", "domainId") =>
              SameAsCreate(update_domain_handler(cr, st, configmap, TRUE),
                           create_domain_handler(cr, st, configmap, TRUE),
                           {"domainId"})
        /\ UpdateWithoutId("flavors", "flavorId") =>
              \A recreate \in BOOLEAN :
                 SameAsCreate(update_flavor_handler(cr, st, configmap, recreate, "none"),
                              create_flavor_handler(cr, st, configmap, TRUE),
                              {"flavorId"})
        /\ UpdateWithoutId("images", "imageId") =>
              SameAsCreate(update_image_handler(cr, st, configmap, "active", TRUE),
                           create_image_handler(cr, EmptyDict, st, configmap, "active", TRUE),
                           {"imageId"})


\* ---------------------------------------------------------------------
\* The update of a Flavor CR after a change of an immutable field, run on
\* the state a behaviour of SpecRecon has reached: the first run on the
\* Ready CR, or a retry after a run that failed part-way
\* ---------------------------------------------------------------------

\* the diff changes one of vcpus, ram, disk, ephemeral, swap, isPublic
ImmutableFieldChanged(diff) ==
    \E field \in diff :
       /\ Len(field) = 2
       /\ field[2] \in {"vcpus", "ram", "disk", "ephemeral", "swap", "isPublic"}

\* the update handler is due for a diff with an immutable field
RecreateDue ==
    /\ NeedsUpdate("flavors")
    /\ ImmutableFieldChanged(cr.diff)
    /\ "flavorId" \in DOMAIN cr.status

HasFlavor(rem, id) == \E r \in rem : r.kind = "flavors" /\ r.id = id

\* C20: an update of a Flavor CR for a change of an immutable field, on its
\* first run or on a retry, that fails in ensure_flavor has already deleted
\* the old flavor and its registry record and created nothing; when it does
\* not fail, the old flavor is gone, status.flavorId is the id of a live
\* flavor of the CR's name that differs from the old id, the registry
\* records that id for the CR, the condition FlavorReady is True with reason
\* Recreated and the phase is Ready.
C20_FlavorRecreated ==
    RecreateDue =>
        LET st == Cloud(remote, nextId)
            old == cr.status["flavorId"]
            part == update_flavor_handler(cr, st, configmap, TRUE, "create")
            out == update_flavor_handler(cr, st, configmap, TRUE, "none")
            after == ApplyPatch(cr.status, out.patch, out.nulls)
            records == GetResources(out.cm, "flavors")
        IN  /\ ~HasFlavor(part.rem, old)
            /\ cr.specName \notin DOMAIN GetResources(part.cm, "flavors")
            /\ part.rem \subseteq remote
            /\ ~part.done
            /\ ~HasFlavor(out.rem, old)
            /\ StatusGet(after, "flavorId") # old
            /\ \E r \in FindIn(out.rem, "flavors", cr.specName, 0) :
                  r.id = StatusGet(after, "flavorId")
            /\ cr.specName \in DOMAIN records
            /\ records[cr.specName] = Info(StatusGet(after, "flavorId"), cr.name)
            /\ Conditions(after) = <<Condition("FlavorReady", "True", "Recreated")>>
            /\ Phase(after) = "Ready"
            /\ out.done

\* the update recreated the flavor: the CR is Ready with the condition
\* Recreated, and its flavorId is a live, registered flavor that is not the
\* one the create handler made
C20_Witness ==
    /\ cr.kind = "flavors"
    /\ cr.handled = cr.generation
    /\ Phase(cr.status) = "Ready"
    /\ Conditions(cr.status) = <<Condition("FlavorReady", "True", "Recreated")>>
    /\ StatusGet(cr.status, "flavorId") > 1
    /\ HasFlavor(remote, StatusGet(cr.status, "flavorId"))
    /\ ~HasFlavor(remote, 1)
    /\ cr.specName \in DOMAIN GetResources(configmap, "flavors")
    /\ GetResources(configmap, "flavors")[cr.specName].id = StatusGet(cr.status, "flavorId")


\* C21: the Flavor update handler recreates the flavor exactly when the diff
\* changes an immutable field; for a diff of extraSpecs entries only it
\* leaves the remote flavor, status.flavorId and the registry record as
\* they were.
C21_RecreateIffImmutable ==
    (NeedsUpdate("flavors") /\ "flavorId" \in DOMAIN cr.status /\ cr.diff # {}) =>
        LET recreate == flavor_needs_recreate(cr.diff)
            out == update_flavor_handler(cr, Cloud(remote, nextId), configmap,
                                         recreate, "none")
            after == ApplyPatch(cr.status, out.patch, out.nulls)
        IN  /\ recreate <=> ImmutableFieldChanged(cr.diff)
            /\ ~ImmutableFieldChanged(cr.diff) =>
                  /\ out.rem = remote
                  /\ StatusGet(after, "flavorId") = cr.status["flavorId"]
                  /\ GetResources(out.cm, "flavors") = GetResources(configmap, "flavors")


\* ---------------------------------------------------------------------
\* SpecUpdate: a Ready project CR with a network and a security group is
\* edited, and update_project re-runs the sub-steps its diff selects
\* ---------------------------------------------------------------------

\* the field paths of the edits a user makes to a Project spec; kopf
\* reports a changed list as one path and a changed map entry by its key
ProjectEdits ==
    {<<"spec", "description">>,
     <<"spec", "quotas", "compute", "instances">>,
     <<"spec", "quotas", "network", "networks">>,
     <<"spec", "quotas", "network", "securityGroups">>,
     <<"spec", "networks">>,
     <<"spec", "securityGroups">>}

RECURSIVE QuotedElements(_)
\* the elements of a tuple as str() renders them: quoted, comma-separated
QuotedElements(p) ==
    IF p = <<>> THEN <<>>
    ELSE <<"'">> \o FieldChars[Head(p)] \o <<"'">>
         \o (IF Len(p) = 1 THEN <<>> ELSE <<",", " ">> \o QuotedElements(Tail(p)))

\* str(p) for a tuple of two or more strings
Str(p) == <<"(">> \o QuotedElements(p) \o <<")">>

\* any(word in str(p) for p in changed_paths)
AnyMentions(word, changed_paths) ==
    \E p \in changed_paths : IsSubstring(FieldChars[word], Str(p))

\* any(p[0] in fields for p in changed_paths)
AnyFirstIn(fields, changed_paths) ==
    \E p \in changed_paths : Head(p) \in fields

\* a run of client deletes against a remote that answers every call
RECURSIVE DeleteAll(_, _)
DeleteAll(targets, rem) ==
    IF targets = <<>> THEN rem
    ELSE DeleteAll(Tail(targets), RemoteDelete(rem, Head(targets).kind, Head(targets).id))

\* delete_security_groups: one delete per recorded group
DeleteSecurityGroupTargets(sg_status) == <<Target("security_groups", sg_status["id"])>>

\* update_project past its projectId check, for a spec without role
\* bindings and federation, against a remote that answers every call: the
\* status patch, the cloud after it and the deletes it issued
update_project_steps(c, st, changed_paths) ==
    LET p0 == Preserve(c.status,
                       [phase |-> "Provisioning", observedGeneration |-> c.generation],
                       {"projectId", "groupId", "networks", "securityGroups", "conditions"})
        project_id == c.status["projectId"]
        described == AnyFirstIn({"description", "enabled"}, changed_paths)
        s1 == IF described
              THEN [st EXCEPT !.issued = st.issued \cup {"update_project"}]
              ELSE st
        quotas == AnyMentions("quotas", changed_paths)
        s2 == IF quotas
              THEN [s1 EXCEPT !.issued = s1.issued \cup {"set_quotas"}]
              ELSE s1
        p2 == IF quotas THEN SetPatchCondition(p0, "QuotasReady", "True", "Updated") ELSE p0
        networks == AnyMentions("networks", changed_paths)
        old_networks == DeleteNetworkTargets(c.status["networks"])
        n == EnsureNetwork([s2 EXCEPT !.rem = DeleteAll(old_networks, s2.rem)],
                           project_id, c.specName, c.router)
        s3 == IF networks THEN n.st ELSE s2
        p3 == IF networks
              THEN SetPatchCondition(DictPut(p2, "networks", n.ids),
                                     "NetworksReady", "True", "Updated")
              ELSE p2
        security_groups == AnyMentions("securityGroups", changed_paths)
        old_sgs == DeleteSecurityGroupTargets(c.status["securityGroups"])
        g == EnsureSecurityGroups([s3 EXCEPT !.rem = DeleteAll(old_sgs, s3.rem)],
                                  project_id, c.specName, c.rules)
        s4 == IF security_groups THEN g.st ELSE s3
        p4 == IF security_groups
              THEN SetPatchCondition(DictPut(p3, "securityGroups", g.ids),
                                     "SecurityGroupsReady", "True", "Updated")
              ELSE p3
    IN  [patch   |-> DictPut(p4, "phase", "Ready"),
         st      |-> s4,
         deleted |-> (IF networks THEN old_networks ELSE <<>>)
                     \o (IF security_groups THEN old_sgs ELSE <<>>)]

\* a project CR with the spec fields the sub-steps read
ProjectCR(name, router, rules, status) ==
    [kind |-> "projects", name |-> name, specName |-> "a", domain |-> "default",
     external |-> FALSE, quotas |-> TRUE, generation |-> 1, created |-> TRUE, handled |-> 1,
     diff |-> {}, status |-> status, router |-> router, rules |-> rules]

\* a Ready project CR whose network and security group exist
InitUpdate ==
    /\ \E name \in ReconNames, router \in BOOLEAN, rules \in BOOLEAN :
         LET p == EnsureProject(Cloud({}, 1), "a")
             n == EnsureNetwork(p.st, p.ids.projectId, "a", router)
             g == EnsureSecurityGroups(n.st, p.ids.projectId, "a", rules)
         IN  /\ cr = ProjectCR(name, router, rules,
                               [phase |-> "Ready", projectId |-> p.ids.projectId,
                                groupId |-> p.ids.groupId, networks |-> n.ids,
                                securityGroups |-> g.ids, conditions |-> <<>>])
             /\ remote = g.st.rem
             /\ nextId = g.st.nid
    /\ configmap = NoConfigMap
    /\ CpInit
    /\ RegIdle
    /\ ClientIdle
    /\ LimIdle
    /\ CondIdle
    /\ RegSeqIdle
    /\ RunIdle
    /\ GaugeIdle
    /\ FedIdle
    /\ EnsIdle
    /\ TdIdle

\* a user edits one field of the spec; an edit of spec.networks adds or
\* drops the router, an edit of spec.securityGroups adds or drops the rule
EditProject ==
    /\ cr.generation < MaxGeneration
    /\ \E field \in ProjectEdits :
         cr' = [cr EXCEPT !.generation = cr.generation + 1,
                          !.diff = cr.diff \cup {field},
                          !.router = IF field = <<"spec", "networks">>
                                     THEN ~cr.router ELSE cr.router,
                          !.rules = IF field = <<"spec", "securityGroups">>
                                    THEN ~cr.rules ELSE cr.rules]
    /\ UNCHANGED <<configmap, cloudVars>>
    /\ UNCHANGED nonReconVars

\* kopf runs update_project with the diff since the last handled spec
UpdateProjectSteps ==
    /\ cr.handled < cr.generation
    /\ LET out == update_project_steps(cr, Cloud(remote, nextId), cr.diff)
       IN  /\ cr' = [cr EXCEPT !.status = ApplyPatch(cr.status, out.patch, {}),
                               !.handled = cr.generation,
                               !.diff = {}]
           /\ remote' = out.st.rem
           /\ nextId' = out.st.nid
    /\ UNCHANGED configmap
    /\ UNCHANGED nonReconVars

NextUpdate ==
    \/ EditProject
    \/ UpdateProjectSteps

SpecUpdate == InitUpdate /\ [][NextUpdate]_vars

\* the diff holds only paths under spec.quotas
QuotasOnly(diff) == diff # {} /\ \A p \in diff : p[1] = "spec" /\ p[2] = "quotas"

\* C22: a Project update whose diff changes only fields under spec.quotas
\* reapplies quotas, issues no delete or create for networks, subnets,
\* routers or security groups and leaves status.networks and
\* status.securityGroups unchanged; networks are rebuilt only when
\* spec.networks changed and security groups only when spec.securityGroups
\* changed
C22_OnlyAffectedSteps ==
    (cr.kind = "projects" /\ cr.handled < cr.generation) =>
        LET out == update_project_steps(cr, Cloud(remote, nextId), cr.diff)
            rebuilt == {t.kind : t \in {out.deleted[i] : i \in DOMAIN out.deleted}}
        IN  /\ QuotasOnly(cr.diff) =>
                  /\ out.st.issued = {"set_quotas"}
                  /\ out.deleted = <<>>
                  /\ out.st.rem = remote
                  /\ out.patch["networks"] = cr.status["networks"]
                  /\ out.patch["securityGroups"] = cr.status["securityGroups"]
            /\ "networks" \in rebuilt => <<"spec", "networks">> \in cr.diff
            /\ "security_groups" \in rebuilt => <<"spec", "securityGroups">> \in cr.diff


\* ---------------------------------------------------------------------
\* The image poll timer, on every state of SpecRecon
\* ---------------------------------------------------------------------

\* the poll has work to do: the phase is Provisioning or Pending and an
\* imageId is recorded
PollDue ==
    /\ cr.kind = "images"
    /\ Phase(cr.status) \in {"Provisioning", "Pending"}
    /\ "imageId" \in DOMAIN cr.status

\* the image the status names exists
ImageLive == \E r \in remote : r.kind = "images" /\ r.id = cr.status["imageId"]

\* the status after a poll that reads this import state
AfterPoll(upload, sized) ==
    LET out == poll_image_status(cr, Cloud(remote, nextId), configmap, upload, sized)
    IN  ApplyPatch(cr.status, out.patch, out.nulls)

\* the poll issues no remote change and no registry change
PollReadsOnly(upload, sized) ==
    LET out == poll_image_status(cr, Cloud(remote, nextId), configmap, upload, sized)
    IN  out.rem = remote /\ out.cm = configmap

delete_image_handler(c, st, cm, ok) ==
    IF c.external
    THEN Outcome(EmptyDict, {}, st, cm, TRUE)
    ELSE IF "imageId" \notin DOMAIN c.status
    THEN Outcome(EmptyDict, {}, st, cm, TRUE)
    ELSE IF ok
    THEN Outcome(EmptyDict, {},
                 [st EXCEPT !.rem = RemoteDelete(st.rem, "images", c.status["imageId"])],
                 Unregister(cm, "images", c.specName), TRUE)
    ELSE Outcome(EmptyDict, {}, st, cm, FALSE)

\* the CR names the cluster GC daemon lists: the CR is listed until its
\* finalizer is released
ImageExpectedCrs ==
    [kind \in {"domains", "flavors", "images", "provider_networks"} |->
        IF kind = "images" /\ teardown.stage # "gone" THEN {cr.name} ELSE {}]

\* one run of _collect_cluster_garbage against a remote that answers
ImageGcRun ==
    CollectClusterGarbage(TickState(remote, configmap, <<>>, 1, {}), ImageExpectedCrs, 1)

\* an image CR just applied; the image it names may exist already
InitImage ==
    /\ \E name \in ReconNames, external \in BOOLEAN, present \in BOOLEAN :
         /\ cr = [NoCR EXCEPT !.kind = "images", !.name = name, !.specName = "a",
                              !.external = external, !.generation = 1]
         /\ remote = IF present
                     THEN {[kind |-> "images", name |-> "a", id |-> 1, parent |-> 0]}
                     ELSE {}
         /\ nextId = IF present THEN 2 ELSE 1
    /\ teardown = [NoTeardown EXCEPT !.stage = "live"]
    /\ configmap = NoConfigMap
    /\ CpInit
    /\ RegIdle
    /\ ClientIdle
    /\ LimIdle
    /\ CondIdle
    /\ RegSeqIdle
    /\ RunIdle
    /\ GaugeIdle
    /\ FedIdle
    /\ EnsIdle

\* the user switches spec.external
SwitchExternal ==
    /\ teardown.stage = "live"
    /\ cr.generation < MaxGeneration
    /\ cr' = [cr EXCEPT !.generation = cr.generation + 1, !.external = ~cr.external]
    /\ UNCHANGED <<configmap, cloudVars>>
    /\ UNCHANGED nonReconVars

ImageCreate == teardown.stage = "live" /\ CreateImage

ImageUpdate == teardown.stage = "live" /\ UpdateImage

ImagePoll == teardown.stage = "live" /\ PollImage

ImageTimer == teardown.stage = "live" /\ TimerImage

\* the user deletes the CR; the finalizer keeps it until the handler returns
ImageUserDelete ==
    /\ teardown.stage = "live"
    /\ teardown' = [teardown EXCEPT !.stage = "deleting"]
    /\ UNCHANGED <<configmap, cloudVars, cr>>
    /\ UNCHANGED nonTdVars

\* kopf runs delete_image_handler until it returns
ImageDelete ==
    /\ teardown.stage = "deleting"
    /\ \E ok \in BOOLEAN :
         LET out == delete_image_handler(cr, Cloud(remote, nextId), configmap, ok)
         IN  /\ remote' = out.rem
             /\ configmap' = out.cm
             /\ teardown' = [teardown EXCEPT !.stage = IF out.done THEN "gone" ELSE "deleting"]
    /\ UNCHANGED <<nextId, cr>>
    /\ UNCHANGED <<cpVars, regVars, fedVars, ensVars, clientVars, limVars, condVars, seqVars, runVars, gaugeVars>>

\* one tick of the cluster GC daemon
ImageGcTick ==
    /\ remote' = ImageGcRun.rem
    /\ configmap' = ImageGcRun.cm
    /\ UNCHANGED <<nextId, cr, teardown>>
    /\ UNCHANGED <<cpVars, regVars, fedVars, ensVars, clientVars, limVars, condVars, seqVars, runVars, gaugeVars>>

NextImage ==
    \/ (teardown.stage = "live" /\ RemoteLost)
    \/ (teardown.stage = "live" /\ RemoteAppears)
    \/ SwitchExternal
    \/ ImageCreate
    \/ ImageUpdate
    \/ ImagePoll
    \/ ImageTimer
    \/ ImageUserDelete
    \/ ImageDelete
    \/ ImageGcTick

SpecImage == InitImage /\ [][NextImage]_vars

\* the remote images
Images(rem) == {r \in rem : r.kind = "images"}

\* the remotes the handler that is due (or a timer, or a GC tick) can leave
ImageRunsLeave ==
    LET st == Cloud(remote, nextId)
    IN  (IF teardown.stage = "live" /\ ~cr.created
         THEN {create_image_handler(cr, EmptyDict, st, configmap, upload, ok).rem :
                  upload \in {"active", "importing"}, ok \in BOOLEAN}
         ELSE {})
        \cup (IF teardown.stage = "live" /\ cr.created /\ cr.handled < cr.generation
              THEN {update_image_handler(cr, st, configmap, upload, ok).rem :
                       upload \in {"active", "importing"}, ok \in BOOLEAN}
              ELSE {})
        \cup (IF teardown.stage = "live"
              THEN {poll_image_status(cr, st, configmap, upload, sized).rem :
                       upload \in UploadStates, sized \in BOOLEAN}
                   \cup {reconcile_image(cr, st, configmap).rem}
              ELSE {})
        \cup (IF teardown.stage = "deleting"
              THEN {delete_image_handler(cr, st, configmap, ok).rem : ok \in BOOLEAN}
              ELSE {})
        \cup {ImageGcRun.rem}

\* C24: while spec.external is true, no create, update, delete or timer
\* handler and no cluster GC tick, during the CR's life or after its
\* removal, creates or deletes a remote image
C24_ExternalUntouched ==
    (cr.kind = "images" /\ cr.external) =>
        \A rem \in ImageRunsLeave : Images(rem) = Images(remote)


\* ---------------------------------------------------------------------
\* SpecValidate: a Project or Domain CR whose required spec fields the
\* user can leave out, and its create, update and timer handlers
\* ---------------------------------------------------------------------

\* the values a required field can have; "" stands for a missing field
NameValues == {"a", ""}

DomainValues == {"default", ""}

\* the required fields of the kind are not all there
FieldMissing(c) ==
    IF c.kind = "projects" THEN ProjectFieldMissing(c) ELSE DomainFieldMissing(c)

InitValidate ==
    /\ \E kind \in {"projects", "domains"}, name \in ReconNames,
          specName \in NameValues, domain \in DomainValues :
         /\ (kind = "domains") => domain = "default"
         /\ cr = [NoCR EXCEPT !.kind = kind, !.name = name, !.specName = specName,
                              !.domain = domain, !.generation = 1]
    /\ remote = {}
    /\ nextId = 1
    /\ configmap = NoConfigMap
    /\ CpInit
    /\ RegIdle
    /\ ClientIdle
    /\ LimIdle
    /\ CondIdle
    /\ RegSeqIdle
    /\ RunIdle
    /\ GaugeIdle
    /\ FedIdle
    /\ EnsIdle
    /\ TdIdle

\* the user rewrites the required fields of the spec
EditRequired ==
    /\ cr.generation < MaxGeneration
    /\ \E specName \in NameValues, domain \in DomainValues :
         /\ (cr.kind = "domains") => domain = "default"
         /\ <<specName, domain>> # <<cr.specName, cr.domain>>
         /\ cr' = [cr EXCEPT !.generation = cr.generation + 1,
                             !.specName = specName, !.domain = domain]
    /\ UNCHANGED <<configmap, cloudVars>>
    /\ UNCHANGED nonReconVars

NextValidate ==
    \/ EditRequired
    \/ CreateProject
    \/ UpdateProject
    \/ TimerProject
    \/ CreateDomain
    \/ UpdateDomain
    \/ TimerDomain

SpecValidate == InitValidate /\ [][NextValidate]_vars

\* the handler for the current spec has run and is not run again
SpecHandled == cr.created /\ cr.handled = cr.generation

\* C25: when a create or update handler finds a required field missing
\* (Project: name or domain; Domain: name), the status it writes has phase
\* Error with the failure recorded in a Ready condition, and the phase
\* stays Error until the spec changes
C25_ValidationFailureIsError ==
    (cr.kind \in {"projects", "domains"} /\ SpecHandled /\ FieldMissing(cr)) =>
        /\ Phase(cr.status) = "Error"
        /\ \E i \in DOMAIN Conditions(cr.status) :
              /\ Conditions(cr.status)[i].type = "Ready"
              /\ Conditions(cr.status)[i].status = "False"


\* ---------------------------------------------------------------------
\* The failure paths of the create and update handlers, on every state
\* of SpecRecon
\* ---------------------------------------------------------------------

\* what the create or update handler that is due can leave behind
DueOutcomes ==
    LET st == Cloud(remote, nextId)
    IN  CASE NeedsCreate("projects") ->
                {create_project(cr, st, configmap, ok) : ok \in BOOLEAN}
          [] NeedsUpdate("projects") ->
                {update_project(cr, st, configmap, changed, ok) :
                    changed \in {"description", "quotas"}, ok \in BOOLEAN}
          [] NeedsCreate("domains") ->
                {create_domain_handler(cr, st, configmap, ok) : ok \in BOOLEAN}
          [] NeedsUpdate("domains") ->
                {update_domain_handler(cr, st, configmap, ok) : ok \in BOOLEAN}
          [] NeedsCreate("flavors") ->
                {create_flavor_handler(cr, st, configmap, ok) : ok \in BOOLEAN}
          [] NeedsUpdate("flavors") ->
                {update_flavor_handler(cr, st, configmap, flavor_needs_recreate(cr.diff), fail) :
                    fail \in FlavorFailPoints}
          [] NeedsCreate("images") ->
                {create_image_handler(cr, EmptyDict, st, configmap, upload, ok) :
                    upload \in {"active", "importing"}, ok \in BOOLEAN}
          [] NeedsUpdate("images") ->
                {update_image_handler(cr, st, configmap, upload, ok) :
                    upload \in {"active", "importing"}, ok \in BOOLEAN}
          [] OTHER -> {}

\* the outcomes of a handler that raised and is run again later
FailedOutcomes == {out \in DueOutcomes : ~out.done}

\* the patch holds a False/Error condition of the type with a message of at
\* most 200 characters
HasErrorCondition(patch, condition_type) ==
    \E i \in DOMAIN Conditions(patch) :
       /\ Conditions(patch)[i].type = condition_type
       /\ Conditions(patch)[i].status = "False"
       /\ Conditions(patch)[i].reason = "Error"
       /\ "message" \in DOMAIN Conditions(patch)[i]
       /\ Conditions(patch)[i].message <= MessageLimit

\* the condition type the handlers of a kind report under
ReadyType ==
    [projects |-> "Ready", domains |-> "DomainReady", flavors |-> "FlavorReady",
     images |-> "ImageReady"]

\* create_image_handler found no image for an external spec: it reports
\* Pending and NotFound and raises the temporary error itself
ExternalNotFound(out) ==
    /\ cr.kind = "images"
    /\ Phase(out.patch) = "Pending"
    /\ \E i \in DOMAIN Conditions(out.patch) :
          Conditions(out.patch)[i] = Condition("ImageReady", "False", "NotFound")

MappingCall == Target("mapping", 0)

\* a call of the delete handler and how it ended
Attempt(kind, id, ok) == [op |-> "delete", kind |-> kind, id |-> id, ok |-> ok]

RECURSIVE RunDeletes(_, _, _, _)
\* a run of client deletes, each in its own try/except; rl = [rem, log]
RunDeletes(targets, rl, fails, i) ==
    IF i > Len(targets) THEN rl
    ELSE LET t == targets[i]
             ok == t \notin fails
         IN  RunDeletes(targets,
                        [rem |-> IF ok THEN RemoteDelete(rl.rem, t.kind, t.id) ELSE rl.rem,
                         log |-> Append(rl.log, Attempt(t.kind, t.id, ok))],
                        fails, i + 1)

\* delete_project_handler.  readable says whether get_federation_config
\* could read the ConfigMap the spec names; fails are the remote calls
\* that raise
delete_project_handler(c, rem, m, cm, readable, fails) ==
    LET federated == c.federationRef /\ readable
        m1 == IF federated THEN RemoveProjectMapping(m, c.specName) ELSE m
        cm1 == IF federated THEN Unregister(cm, "federation_mappings", c.specName) ELSE cm
        log1 == IF federated THEN <<Attempt("mapping", 0, TRUE)>> ELSE <<>>
        run == RunDeletes(DeleteProjectTargets(c.status), [rem |-> rem, log |-> log1], fails, 1)
    IN  IF "projectId" \notin DOMAIN c.status
        THEN [rem |-> rem, mapping |-> m, cm |-> cm, log |-> <<>>, done |-> TRUE]
        ELSE IF federated /\ MappingCall \in fails
        THEN [rem |-> rem, mapping |-> m, cm |-> cm,
              log |-> <<Attempt("mapping", 0, FALSE)>>, done |-> FALSE]
        ELSE [rem |-> run.rem, mapping |-> m1, cm |-> cm1, log |-> run.log, done |-> TRUE]

\* the mappings a project's rule can live in: alone, or next to another
\* project's rule
DeleteMappings ==
    {AddProjectMapping(NoMapping, "a", <<"u1">>),
     AddProjectMapping(AddProjectMapping(NoMapping, "b", <<"u2">>), "a", <<"u1">>)}

\* a Ready project CR with what its create handler left: the project and
\* its group, the network and the security group of the spec, and for a
\* spec with federationRef the mapping rule and its registry record
InitDelete ==
    /\ \E name \in ReconNames, network \in BOOLEAN, router \in BOOLEAN,
          sg \in BOOLEAN, federationRef \in BOOLEAN :
         LET p == EnsureProject(Cloud({}, 1), "a")
             n == IF network
                  THEN EnsureNetwork(p.st, p.ids.projectId, "a", router)
                  ELSE [st |-> p.st, ids |-> EmptyDict]
             g == IF sg
                  THEN EnsureSecurityGroups(n.st, p.ids.projectId, "a", FALSE)
                  ELSE [st |-> n.st, ids |-> EmptyDict]
             s0 == [phase |-> "Ready", projectId |-> p.ids.projectId,
                    groupId |-> p.ids.groupId]
             s1 == IF network THEN DictPut(s0, "networks", n.ids) ELSE s0
             s2 == IF sg THEN DictPut(s1, "securityGroups", g.ids) ELSE s1
         IN  /\ router => network
             /\ cr = ProjectCR(name, router, FALSE, s2) @@ [federationRef |-> federationRef]
             /\ remote = g.st.rem
             /\ nextId = g.st.nid
             /\ teardown = [stage |-> "live", outage |-> 0, owned |-> g.st.rem]
             /\ IF federationRef
                THEN /\ mapping \in DeleteMappings
                     /\ configmap = Register(NoConfigMap, "federation_mappings", "a", 40, name)
                ELSE /\ mapping = NoMapping
                     /\ configmap = NoConfigMap
    /\ fed = [t \in Callers |-> NoFedCall]
    /\ fedClock = 0
    /\ seq = NoSeq
    /\ crs = {}
    /\ crEvents = 0
    /\ handler = [c \in CRUniverse |-> [pc |-> "none", id |-> 0]]
    /\ daemon = [d \in DaemonCRs |-> IdleDaemon("off")]
    /\ loopOwner = NoDaemon
    /\ gcLog = <<>>
    /\ RegIdle
    /\ ClientIdle
    /\ LimIdle
    /\ CondIdle
    /\ RegSeqIdle
    /\ RunIdle
    /\ GaugeIdle
    /\ EnsIdle

\* what SpecDelete leaves alone
nonDeleteVars == <<nextId, crs, crEvents, handler, daemon, loopOwner, regVars,
                   fed, fedClock, seq, ensVars, clientVars, limVars, condVars, seqVars, runVars, gaugeVars>>

\* another actor deletes the project or its group
ProjectLost ==
    /\ teardown.stage = "live"
    /\ \E r \in remote :
         /\ r.kind \in {"projects", "groups"}
         /\ remote' = remote \ {r}
    /\ UNCHANGED <<configmap, cr, teardown, mapping, gcLog>>
    /\ UNCHANGED nonDeleteVars

\* the drift timer of the live CR
ProjectTimer ==
    /\ teardown.stage = "live"
    /\ LET out == reconcile_project(cr, Cloud(remote, nextId), configmap)
       IN  cr' = [cr EXCEPT !.status = ApplyPatch(cr.status, out.patch, out.nulls)]
    /\ UNCHANGED <<configmap, remote, teardown, mapping, gcLog>>
    /\ UNCHANGED nonDeleteVars

\* the user deletes the CR
ProjectUserDelete ==
    /\ teardown.stage = "live"
    /\ teardown' = [teardown EXCEPT !.stage = "deleting"]
    /\ UNCHANGED <<configmap, remote, cr, mapping, gcLog>>
    /\ UNCHANGED nonDeleteVars

\* the calls of the handler that can raise
DeleteCalls == {MappingCall} \cup
    (IF "projectId" \in DOMAIN cr.status
     THEN {DeleteProjectTargets(cr.status)[i] : i \in DOMAIN DeleteProjectTargets(cr.status)}
     ELSE {})

\* kopf runs delete_project_handler until it returns; at most MaxFails of
\* its calls raise in one run
ProjectDelete ==
    /\ teardown.stage = "deleting"
    /\ \E readable \in BOOLEAN, fails \in SUBSET DeleteCalls :
         /\ Cardinality(fails) <= MaxFails
         /\ LET out == delete_project_handler(cr, remote, mapping, configmap, readable, fails)
            IN  /\ remote' = out.rem
                /\ mapping' = out.mapping
                /\ configmap' = out.cm
                /\ gcLog' = out.log
                /\ teardown' = [teardown EXCEPT
                                   !.stage = IF out.done THEN "gone" ELSE "deleting"]
    /\ UNCHANGED cr
    /\ UNCHANGED nonDeleteVars

NextDelete ==
    \/ ProjectLost
    \/ ProjectTimer
    \/ ProjectUserDelete
    \/ ProjectDelete

SpecDelete == InitDelete /\ [][NextDelete]_vars

\* the place of a call in the teardown
TeardownRank ==
    [mapping |-> 1, security_groups |-> 2, router_interfaces |-> 3, routers |-> 4,
     subnets |-> 5, networks |-> 6, groups |-> 7, projects |-> 8]

\* the targets of the calls in a log, in order, without the mapping call
LoggedTargets(log) ==
    LET deletes == SelectSeq(log, LAMBDA e : e.kind # "mapping")
    IN  [i \in DOMAIN deletes |-> Target(deletes[i].kind, deletes[i].id)]

\* C27: the delete handler removes the federation rule first and keeps the
\* mapping document, then deletes the security groups, then per network
\* the router interface, the router, the subnet and the network, then the
\* group and last the project; a step that fails, a network step included,
\* does not keep the later steps from being attempted
C27_TeardownOrder ==
    /\ \A i, j \in DOMAIN gcLog :
          i < j => TeardownRank[gcLog[i].kind] < TeardownRank[gcLog[j].kind]
    /\ (teardown.stage = "gone" /\ "projectId" \in DOMAIN cr.status) =>
          /\ LoggedTargets(gcLog) = DeleteProjectTargets(cr.status)
          /\ gcLog[Len(gcLog)].kind = "projects"
    /\ cr.federationRef => mapping.exists

\* a full teardown in which a network step failed and a later step went
\* through
C27_Witness ==
    /\ teardown.stage = "gone"
    /\ Len(gcLog) = 8
    /\ \E i, j \in DOMAIN gcLog :
          /\ i < j
          /\ gcLog[i].kind \in {"router_interfaces", "routers", "subnets", "networks"}
          /\ ~gcLog[i].ok
          /\ gcLog[j].ok

\* C28: whenever the Project delete handler has returned, the registry
\* holds no record for the project and the mapping has no rule for its
\* derived group, also when status has no projectId or the federation
\* config cannot be read
C28_DeleteUnregisters ==
    teardown.stage = "gone" =>
        /\ cr.specName \notin DOMAIN GetResources(configmap, "federation_mappings")
        /\ RulesFor(mapping, cr.specName) = <<>>

\* ---------------------------------------------------------------------
\* SpecClient: one caller runs operations of the remote client
\* (openstack_client.py), each decorated with retry_on_error; the SDK
\* answers every call it receives, and the caller of a delete removes
\* the registry record once the delete has returned
\* ---------------------------------------------------------------------

\* the kinds the client deletes by id, in the order of their ids here
ClientKinds ==
    <<"projects", "groups", "networks", "subnets", "routers",
      "security_groups", "domains", "flavors", "images">>

DeleteKinds == {ClientKinds[i] : i \in DOMAIN ClientKinds}

\* the id the caller holds for the resource of a kind
ClientId(kind) == CHOOSE i \in DOMAIN ClientKinds : ClientKinds[i] = kind

\* the lookups: get_project calls the decorated get_domain in its body
GetOps == {"get_domain", "get_project"}

\* the kinds whose handlers keep a registry record of what they created
RecordedKinds == {"domains", "flavors", "images"}

ClientResources == {Resource(k, "a", ClientId(k), 0) : k \in DeleteKinds}

\* whether the remote still holds the resource the caller's id names
Present(rem, kind) == \E r \in rem : r.kind = kind /\ r.id = ClientId(kind)

\* what the SDK can answer to the call an operation makes.  A lookup
\* finds the object, finds nothing, or fails; a delete of a live id
\* succeeds or fails; a delete of an id that is gone is passed over in
\* silence or raises ResourceNotFound, and the calls delete_domain and
\* delete_image make first (update_domain, get_image) always raise it
SdkAnswers(op, present) ==
    IF op \in GetOps THEN {"ok", "none", "HttpException", "SDKException"}
    ELSE IF present THEN {"ok", "HttpException", "SDKException"}
    ELSE (IF op \in {"domains", "images"} THEN {} ELSE {"ignored"})
         \cup {"ResourceNotFound", "HttpException", "SDKException"}

\* exceptions=(HttpException,): what the wrapper catches; ResourceNotFound
\* is a subclass of HttpException
Caught(answer) == answer \in {"HttpException", "ResourceNotFound"}

\* the try/except ResourceNotFound in the body of a delete method:
\* every delete method has one except delete_project
Swallows(op) == op \in DeleteKinds \ {"projects"}

\* the else branch of the wrapper's loop: the last attempt has failed
Exhausted(frame) == frame.attempt >= max_retries

\* time.sleep(current_delay); current_delay *= backoff; next attempt
AfterFailure(frame) ==
    [attempt       |-> frame.attempt + 1,
     current_delay |-> frame.current_delay * backoff,
     slept         |-> Append(frame.slept, frame.current_delay)]

\* the operation has ended with that result
Ended(c, result) == [c EXCEPT !.pc = "done", !.result = result]

nonClientVars ==
    <<nextId, cpVars, regVars, fedVars, ensVars, reconVars, tdVars, limVars, condVars, seqVars, runVars, gaugeVars>>

\* one of the resources is still on the remote, the others are gone; the
\* registry holds the records the cluster handlers wrote when they
\* created theirs
InitClient ==
    /\ remote \in {{r} : r \in ClientResources}
    /\ configmap =
         Register(Register(Register(NoConfigMap,
             "domains", "a", ClientId("domains"), "a"),
             "flavors", "a", ClientId("flavors"), "a"),
             "images", "a", ClientId("images"), "a")
    /\ nextId = Len(ClientKinds) + 1
    /\ client = NoClient
    /\ LimIdle
    /\ CondIdle
    /\ RegSeqIdle
    /\ RunIdle
    /\ GaugeIdle
    /\ CpInit
    /\ RegIdle
    /\ FedIdle
    /\ EnsIdle
    /\ ReconIdle
    /\ TdIdle

\* the caller invokes a decorated method: the wrapper is entered, and
\* the body of get_project starts with its call of get_domain
Invoke ==
    /\ client.pc = "idle"
    /\ \E op \in GetOps \cup DeleteKinds :
         client' = [NoClient EXCEPT
                       !.pc = IF op = "get_project" THEN "inner" ELSE "outer",
                       !.op = op,
                       !.id = IF op \in DeleteKinds THEN ClientId(op) ELSE 0,
                       !.missing = op \in DeleteKinds /\ ~Present(remote, op)]
    /\ UNCHANGED <<remote, configmap>>
    /\ UNCHANGED nonClientVars

\* one attempt of the get_domain that get_project calls: find_domain
\* answers, and the wrapper of get_domain returns, sleeps and retries, or
\* raises.  Its OpenStackAPIError is not an HttpException, so the wrapper
\* of get_project lets it through, like any other exception
InnerCall ==
    /\ client.pc = "inner"
    /\ \E answer \in SdkAnswers("get_domain", TRUE) :
         LET c == [client EXCEPT !.innerCalls = @ + 1,
                                 !.faulted = @ \/ answer \notin {"ok", "none"}]
         IN  client' =
               IF answer = "ok" THEN [c EXCEPT !.pc = "outer"]
               ELSE IF answer = "none" THEN Ended(c, "None")
               ELSE IF Caught(answer)
               THEN IF Exhausted(c.inner)
                    THEN Ended(c, "OpenStackAPIError")
                    ELSE [c EXCEPT !.inner = AfterFailure(@)]
               ELSE Ended(c, answer)
    /\ UNCHANGED <<remote, configmap>>
    /\ UNCHANGED nonClientVars

\* one attempt of the invoked method's own SDK call (find_domain,
\* find_project or the delete): the body returns, or swallows
\* ResourceNotFound and returns, or raises into the wrapper, which sleeps
\* and runs the body again from its start, or raises
OuterCall ==
    /\ client.pc = "outer"
    /\ \E answer \in SdkAnswers(client.op,
                                client.op \in DeleteKinds /\ Present(remote, client.op)) :
         LET c == [client EXCEPT
                      !.faulted = @ \/ answer \in {"HttpException", "SDKException"}]
         IN  /\ client' =
                  IF answer = "ok" THEN Ended(c, "returned")
                  ELSE IF answer = "none" THEN Ended(c, "None")
                  ELSE IF answer = "ignored" THEN Ended(c, "returned")
                  ELSE IF answer = "ResourceNotFound" /\ Swallows(c.op)
                  THEN Ended(c, "returned")
                  ELSE IF Caught(answer)
                  THEN IF Exhausted(c.outer)
                       THEN Ended(c, "OpenStackAPIError")
                       ELSE [c EXCEPT !.outer = AfterFailure(@),
                                      !.inner = NoFrame,
                                      !.pc = IF c.op = "get_project"
                                             THEN "inner" ELSE "outer"]
                  ELSE Ended(c, answer)
             /\ remote' = IF answer = "ok" /\ c.op \in DeleteKinds
                          THEN RemoteDelete(remote, c.op, c.id)
                          ELSE remote
    /\ UNCHANGED configmap
    /\ UNCHANGED nonClientVars

\* the operation has ended.  After a delete that returned, the caller
\* unregisters the record (registry.unregister follows the delete in the
\* same try); a result or an exception of any other operation goes to
\* the caller and the registry is left as it is
Finish ==
    /\ client.pc = "done"
    /\ configmap' = IF client.op \in RecordedKinds /\ client.result = "returned"
                    THEN Unregister(configmap, client.op, "a")
                    ELSE configmap
    /\ client' = NoClient
    /\ UNCHANGED remote
    /\ UNCHANGED nonClientVars

\* someone else deletes a resource between two operations
DeletedElsewhere ==
    /\ client.pc = "idle"
    /\ \E r \in remote : remote' = remote \ {r}
    /\ UNCHANGED <<client, configmap>>
    /\ UNCHANGED nonClientVars

NextClient ==
    \/ Invoke
    \/ InnerCall
    \/ OuterCall
    \/ Finish
    \/ DeletedElsewhere

SpecClient == InitClient /\ [][NextClient]_vars

\* C29: a client delete of an id that is no longer on the remote, met by
\* no failure other than not-found, returns success, for every deletable
\* kind (so that its caller goes on to remove the registry record)
C29_DeleteOfMissingReturns ==
    (/\ client.pc = "done"
     /\ client.op \in DeleteKinds
     /\ client.missing
     /\ ~client.faulted)
        => client.result = "returned"

\* the same for the kinds whose delete method catches ResourceNotFound
SwallowingDeleteOfMissingReturns ==
    (/\ client.pc = "done"
     /\ Swallows(client.op)
     /\ client.missing
     /\ ~client.faulted)
        => client.result = "returned"

\* the sleeps of a wrapper that has reached that attempt: delay,
\* delay * backoff, delay * backoff * backoff
Backoffs == <<delay, delay * backoff, delay * backoff * backoff>>

\* one wrapper run is within its attempts and has slept 1 s, 2 s, 4 s
FrameWithinContract(frame) ==
    /\ frame.attempt + 1 <= max_retries + 1
    /\ frame.slept = SubSeq(Backoffs, 1, frame.attempt)

\* the calls of find_domain one invocation of get_project has made
InnerAttempts == client.innerCalls

\* C30: a wrapped operation makes at most 4 attempts, sleeps 1 s, 2 s and
\* 4 s between them, ends at its first success, raises the API error
\* only after the 4th caught failure; and the get_domain inside
\* get_project is attempted at most 4 times per invocation of get_project
C30_RetryBounded ==
    /\ FrameWithinContract(client.outer)
    /\ FrameWithinContract(client.inner)
    /\ client.result = "OpenStackAPIError"
          => Exhausted(client.outer) \/ Exhausted(client.inner)
    /\ client.op = "get_project" => InnerAttempts <= max_retries + 1

\* the same without the clause on nesting
WrapperWithinContract ==
    /\ FrameWithinContract(client.outer)
    /\ FrameWithinContract(client.inner)
    /\ client.result = "OpenStackAPIError"
          => Exhausted(client.outer) \/ Exhausted(client.inner)

\* ---------------------------------------------------------------------
\* SpecLimiter: threads enter and leave RateLimiter.acquire()
\* (ratelimit.py) while the monotonic clock advances in ticks
\* ---------------------------------------------------------------------

\* RateLimiter(max_concurrent=2), as in test_enforces_concurrent_limit
max_concurrent == 2

\* self._min_interval = 1.0 / requests_per_second, in ticks of the clock
min_interval == 2

\* bound on the acquires one thread makes
MaxRounds == 2

\* bound on the ticks that pass while no thread sleeps
MaxClock == 2

\* the threads that use the limiter
Acquirers == {1, 2, 3}

\* a thread outside acquire()
IdleThread == [pc |-> "idle", now |-> 0, wake |-> 0, rounds |-> 0, left |-> "none"]

\* RateLimiter.__init__
NewLimiter ==
    [semaphore |-> max_concurrent, lock |-> 0, last_call_time |-> 0, clock |-> 0,
     threads |-> [t \in Acquirers |-> IdleThread], admissions |-> <<>>]

\* threading.Semaphore.acquire does not block: the counter is above zero
SemaphoreOpen(lim) == TRUE

SemaphoreFree(lim) == lim.semaphore > 0

\* an acquire() that waits for nothing between two calls
NoIntervalWait(lim, now) == 0

\* interval_wait = self._min_interval - (now - self._last_call_time)
IntervalWait(lim, now) == min_interval - (now - lim.last_call_time)

\* the threads that hold a slot of the semaphore
SlotHolders(lim) ==
    {t \in DOMAIN lim.threads : lim.threads[t].pc \in {"lock", "sleep", "body"}}

\* the threads inside the body of `with limiter.acquire():`
InBody(lim) == {t \in DOMAIN lim.threads : lim.threads[t].pc = "body"}

nonLimVars ==
    <<configmap, nextId, remote, cpVars, regVars, fedVars, ensVars, reconVars,
      tdVars, clientVars, condVars, seqVars, runVars, gaugeVars>>

InitLimiter ==
    /\ limiter = NewLimiter
    /\ CondIdle
    /\ RegSeqIdle
    /\ RunIdle
    /\ GaugeIdle
    /\ configmap = NoConfigMap
    /\ remote = {}
    /\ nextId = 1
    /\ CpInit
    /\ RegIdle
    /\ ClientIdle
    /\ FedIdle
    /\ EnsIdle
    /\ ReconIdle
    /\ TdIdle

\* a thread calls acquire(): wait_start is taken and the thread goes to
\* self._semaphore.acquire()
Acquire(t) ==
    /\ limiter.threads[t].pc = "idle"
    /\ limiter.threads[t].rounds < MaxRounds
    /\ limiter' = [limiter EXCEPT !.threads[t].pc = "semaphore"]
    /\ UNCHANGED nonLimVars

\* self._semaphore.acquire() returns
SemaphoreAcquire(t) ==
    /\ limiter.threads[t].pc = "semaphore"
    /\ SemaphoreFree(limiter)
    /\ limiter' = [limiter EXCEPT !.semaphore = @ - 1, !.threads[t].pc = "lock"]
    /\ UNCHANGED nonLimVars

\* with self._lock: now is read, the wait is computed and the thread
\* sleeps for it with the lock held
LockEnter(t) ==
    /\ limiter.threads[t].pc = "lock"
    /\ limiter.lock = 0
    /\ LET now == limiter.clock
           interval_wait == IntervalWait(limiter, now)
       IN  limiter' = [limiter EXCEPT
                          !.lock = t,
                          !.threads[t].pc = "sleep",
                          !.threads[t].now = now,
                          !.threads[t].wake = IF interval_wait > 0
                                              THEN now + interval_wait ELSE now]
    /\ UNCHANGED nonLimVars

\* the sleep is over: self._last_call_time = time.monotonic(), the lock
\* is released and the generator yields to the body
Admit(t) ==
    /\ limiter.threads[t].pc = "sleep"
    /\ limiter.clock >= limiter.threads[t].wake
    /\ limiter' = [limiter EXCEPT
                      !.last_call_time = limiter.clock,
                      !.admissions = Append(@, limiter.clock),
                      !.lock = 0,
                      !.threads[t].pc = "body",
                      !.threads[t].now = 0,
                      !.threads[t].wake = 0]
    /\ UNCHANGED nonLimVars

\* the body ends, by return or by exception: finally releases the slot
Leave(t) ==
    /\ limiter.threads[t].pc = "body"
    /\ \E how \in {"return", "raise"} :
         limiter' = [limiter EXCEPT
                        !.semaphore = @ + 1,
                        !.threads[t].pc = "idle",
                        !.threads[t].rounds = @ + 1,
                        !.threads[t].left = how]
    /\ UNCHANGED nonLimVars

\* the sleep of a thread is not over yet
Sleeping(lim) ==
    \E t \in DOMAIN lim.threads :
        lim.threads[t].pc = "sleep" /\ lim.clock < lim.threads[t].wake

\* time passes
Tick ==
    /\ limiter.clock < MaxClock \/ Sleeping(limiter)
    /\ limiter' = [limiter EXCEPT !.clock = @ + 1]
    /\ UNCHANGED nonLimVars

NextLimiter ==
    \/ \E t \in Acquirers : Acquire(t)
    \/ \E t \in Acquirers : SemaphoreAcquire(t)
    \/ \E t \in Acquirers : LockEnter(t)
    \/ \E t \in Acquirers : Admit(t)
    \/ \E t \in Acquirers : Leave(t)
    \/ Tick

SpecLimiter == InitLimiter /\ [][NextLimiter]_vars

\* every thread that is inside acquire() goes on, a holder leaves the
\* body, and the clock runs while a thread sleeps
SpecLimiterFair ==
    /\ SpecLimiter
    /\ \A t \in Acquirers :
         /\ WF_vars(SemaphoreAcquire(t))
         /\ WF_vars(LockEnter(t))
         /\ WF_vars(Admit(t))
         /\ WF_vars(Leave(t))
    /\ WF_vars(Tick)

\* no more threads hold a slot, or are in the body, than the limiter
\* has slots, and the slots not held are free
SlotsWithinLimit ==
    /\ Cardinality(InBody(limiter)) <= max_concurrent
    /\ limiter.semaphore = max_concurrent - Cardinality(SlotHolders(limiter))

\* C31: at most max_concurrent threads are inside acquire()'s body, a
\* slot is free again when its holder has left the body by return or by
\* exception, and every thread that waits in acquire() is admitted
C31_AcquireContract ==
    /\ []SlotsWithinLimit
    /\ \A t \in Acquirers :
         (limiter.threads[t].pc = "semaphore") ~> (limiter.threads[t].pc = "body")

\* all slots are taken while another thread waits, and a thread has left
\* the body by exception before
C31_Witness ==
    /\ Cardinality(InBody(limiter)) = max_concurrent
    /\ \E t \in Acquirers : limiter.threads[t].pc = "semaphore"
    /\ \E t \in Acquirers : limiter.threads[t].left = "raise"

\* C32: any two admissions, by whichever threads, are at least the
\* minimum interval apart for each admission between them, so k
\* acquires take at least (k - 1) intervals, and the recorded time of
\* the last admission never advances by less than the interval
C32_MinimumInterval ==
    /\ \A i, j \in DOMAIN limiter.admissions :
         i < j => limiter.admissions[j] - limiter.admissions[i] >= (j - i) * min_interval
    /\ limiter.admissions # <<>>
          => limiter.last_call_time = limiter.admissions[Len(limiter.admissions)]

\* three admissions, the third exactly two intervals after the first
C32_Witness ==
    /\ Len(limiter.admissions) >= 3
    /\ limiter.admissions[3] - limiter.admissions[1] = 2 * min_interval

\* ---------------------------------------------------------------------
\* SpecCalls: the handler and daemon threads of the process call the
\* remote through OpenStackClient (openstack_client.py); the process has
\* one rate limiter (get_rate_limiter)
\* ---------------------------------------------------------------------

\* some of the decorated methods of OpenStackClient
ClientOps == {"get_project", "create_project", "delete_project"}

\* the threads whose SDK call is in flight
InFlight(lim) == {t \in DOMAIN lim.threads : lim.threads[t].pc = "call"}

InitCalls == InitLimiter

\* a thread calls a client method: wrapper() calls func(), which calls
\* self.conn.<service>.<operation>; neither asks get_rate_limiter() for
\* a slot
RemoteCall(t) ==
    /\ limiter.threads[t].pc = "idle"
    /\ limiter.threads[t].rounds < MaxRounds
    /\ \E op \in ClientOps :
         limiter' = [limiter EXCEPT !.threads[t].pc = "call",
                                    !.threads[t].left = op]
    /\ UNCHANGED nonLimVars

\* the SDK call returns or raises
RemoteReturn(t) ==
    /\ limiter.threads[t].pc = "call"
    /\ limiter' = [limiter EXCEPT !.threads[t].pc = "idle",
                                  !.threads[t].rounds = @ + 1]
    /\ UNCHANGED nonLimVars

NextCalls ==
    \/ \E t \in Acquirers : RemoteCall(t)
    \/ \E t \in Acquirers : RemoteReturn(t)

SpecCalls == InitCalls /\ [][NextCalls]_vars

\* C33: every remote call in flight holds a slot of the shared limiter,
\* so no more than max_concurrent calls are in flight
C33_CallsHoldSlot ==
    /\ InFlight(limiter) \subseteq SlotHolders(limiter)
    /\ Cardinality(InFlight(limiter)) <= max_concurrent
    /\ limiter.semaphore = max_concurrent - Cardinality(InFlight(limiter))

\* ---------------------------------------------------------------------
\* SpecCondition: set_condition (utils.py) and _set_patch_condition
\* (handlers.py), which share their body, are called on one conditions
\* list while time passes
\* ---------------------------------------------------------------------

\* bound on the clock
MaxTime == 5

ConditionTypes == {"Ready", "DomainReady"}

ConditionStatuses == {"True", "False"}

ConditionReasons == {"Completed", "Error"}

ConditionMessages == {"", "failed"}

\* an entry as the function writes it
ConditionEntry(condition_type, condition_status, reason, message, time) ==
    [type |-> condition_type, status |-> condition_status, reason |-> reason,
     message |-> message, lastTransitionTime |-> time]

\* the index of the first entry of that type, 0 when there is none
FirstOfType(conditions, condition_type) ==
    LET hits == {i \in DOMAIN conditions : conditions[i].type = condition_type}
    IN  IF hits = {} THEN 0 ELSE CHOOSE i \in hits : \A j \in hits : i <= j

\* a set_condition that stamps the entry on every call
set_condition_stamping(conditions, condition_type, condition_status, reason, message, now) ==
    LET i == FirstOfType(conditions, condition_type)
        entry == ConditionEntry(condition_type, condition_status, reason, message, now)
    IN  IF i # 0 THEN [conditions EXCEPT ![i] = entry] ELSE Append(conditions, entry)

\* set_condition: the first entry of the type gets the status, and the
\* time only if the status differs; reason and message are overwritten;
\* without such an entry a new one is appended.  now is what now_iso()
\* returns
set_condition(conditions, condition_type, condition_status, reason, message, now) ==
    LET i == FirstOfType(conditions, condition_type)
    IN  IF i # 0
        THEN [conditions EXCEPT ![i] =
                 ConditionEntry(condition_type, condition_status, reason, message,
                                IF conditions[i].status # condition_status
                                THEN now
                                ELSE conditions[i].lastTransitionTime)]
        ELSE Append(conditions,
                    ConditionEntry(condition_type, condition_status, reason, message, now))

nonCondVars ==
    <<configmap, nextId, remote, cpVars, regVars, fedVars, ensVars, reconVars,
      tdVars, clientVars, limVars, seqVars, runVars, gaugeVars>>

InitCondition ==
    /\ conds = NoConds
    /\ RegSeqIdle
    /\ RunIdle
    /\ GaugeIdle
    /\ LimIdle
    /\ configmap = NoConfigMap
    /\ remote = {}
    /\ nextId = 1
    /\ CpInit
    /\ RegIdle
    /\ ClientIdle
    /\ FedIdle
    /\ EnsIdle
    /\ ReconIdle
    /\ TdIdle

\* one call: now_iso() reads the clock, which has microsecond resolution
\* and has moved on since the previous call read it
SetCondition ==
    /\ conds.clock < MaxTime
    /\ \E condition_type \in ConditionTypes, condition_status \in ConditionStatuses,
          reason \in ConditionReasons, message \in ConditionMessages,
          passed \in {1, 2} :
         LET now == conds.clock + passed
         IN  conds' = [list   |-> set_condition(conds.list, condition_type,
                                                condition_status, reason, message, now),
                       clock  |-> now,
                       call   |-> <<ConditionEntry(condition_type, condition_status,
                                                   reason, message, now)>>,
                       before |-> conds.list]
    /\ UNCHANGED nonCondVars

NextCondition == SetCondition

SpecCondition == InitCondition /\ [][NextCondition]_vars

\* the last call's arguments, the index of its type before the call, and
\* whether an entry of the type was there with the same status
LastCall == conds.call[1]

IndexBefore == FirstOfType(conds.before, LastCall.type)

SameStatusBefore ==
    IndexBefore # 0 /\ conds.before[IndexBefore].status = LastCall.status

\* the index of the entry the call wrote
IndexAfter == IF IndexBefore # 0 THEN IndexBefore ELSE Len(conds.list)

\* C34: after a set-condition call the entry of the type has a new
\* lastTransitionTime if and only if its status changed or the entry is
\* new; with the same status the time is kept and reason and message are
\* the call's; the entries of the other types are as before
C34_TransitionTimeOnStatusChange ==
    conds.call # <<>> =>
        /\ Len(conds.list) = Len(conds.before) + (IF IndexBefore = 0 THEN 1 ELSE 0)
        /\ conds.list[IndexAfter].type = LastCall.type
        /\ conds.list[IndexAfter].status = LastCall.status
        /\ conds.list[IndexAfter].reason = LastCall.reason
        /\ conds.list[IndexAfter].message = LastCall.message
        /\ SameStatusBefore
              => conds.list[IndexAfter].lastTransitionTime
                    = conds.before[IndexBefore].lastTransitionTime
        /\ ~SameStatusBefore
              => /\ conds.list[IndexAfter].lastTransitionTime = LastCall.lastTransitionTime
                 /\ IndexBefore # 0
                       => conds.list[IndexAfter].lastTransitionTime
                             # conds.before[IndexBefore].lastTransitionTime
        /\ \A i \in DOMAIN conds.before : i # IndexAfter => conds.list[i] = conds.before[i]

\* a call with the status the entry already had and another reason, on a
\* list that also holds an entry of the other type
C34_Witness ==
    /\ conds.call # <<>>
    /\ SameStatusBefore
    /\ conds.before[IndexBefore].reason # LastCall.reason
    /\ Len(conds.list) = 2
    /\ conds.list[IndexAfter].lastTransitionTime < conds.clock

\* ---------------------------------------------------------------------
\* SpecRegistry: one caller uses the registry (resources/registry.py),
\* one call after the other, starting before the ConfigMap exists
\* ---------------------------------------------------------------------

SeqKinds == {"domains", "flavors"}

SeqNames == {"a", "b"}

SeqIds == {1, 2}

SeqCrNames == {"x", "y"}

\* get: resources.get(name), None when the name is not there
Get(cm, resource_type, name) ==
    LET resources == GetResources(cm, resource_type)
    IN  IF name \in DOMAIN resources THEN <<resources[name]>> ELSE <<>>

\* the map the calls so far amount to: a record is put by register and
\* taken out by unregister
Put(records, kind, name, id, cr_name) ==
    {r \in records : ~(r.kind = kind /\ r.name = name)}
        \cup {[kind |-> kind, name |-> name, id |-> id, cr_name |-> cr_name]}

Take(records, kind, name) == {r \in records : ~(r.kind = kind /\ r.name = name)}

\* what the map holds for a key, in the shape get returns it
Held(records, kind, name) ==
    LET hits == {r \in records : r.kind = kind /\ r.name = name}
    IN  IF hits = {} THEN <<>>
        ELSE LET r == CHOOSE r \in hits : TRUE IN <<Info(r.id, r.cr_name)>>

nonSeqVars ==
    <<nextId, remote, cpVars, regVars, fedVars, ensVars, reconVars, tdVars,
      clientVars, limVars, condVars, runVars, gaugeVars>>

InitRegistry ==
    /\ regseq = NoRegSeq
    /\ RunIdle
    /\ GaugeIdle
    /\ configmap = NoConfigMap
    /\ CondIdle
    /\ LimIdle
    /\ remote = {}
    /\ nextId = 1
    /\ CpInit
    /\ RegIdle
    /\ ClientIdle
    /\ FedIdle
    /\ EnsIdle
    /\ ReconIdle
    /\ TdIdle

SeqCall(op, kind, name) == <<[op |-> op, kind |-> kind, name |-> name]>>

RegisterCall ==
    \E kind \in SeqKinds, name \in SeqNames, id \in SeqIds, cr_name \in SeqCrNames :
        /\ configmap' = Register(configmap, kind, name, id, cr_name)
        /\ regseq' = [records |-> Put(regseq.records, kind, name, id, cr_name),
                      call    |-> SeqCall("register", kind, name),
                      before  |-> configmap,
                      result  |-> <<>>]
        /\ UNCHANGED nonSeqVars

UnregisterCall ==
    \E kind \in SeqKinds, name \in SeqNames :
        /\ configmap' = Unregister(configmap, kind, name)
        /\ regseq' = [records |-> Take(regseq.records, kind, name),
                      call    |-> SeqCall("unregister", kind, name),
                      before  |-> configmap,
                      result  |-> <<>>]
        /\ UNCHANGED nonSeqVars

\* get reads through _get_configmap, which creates a missing ConfigMap
GetCall ==
    \E kind \in SeqKinds, name \in SeqNames :
        /\ configmap' = AfterGetConfigMap(configmap)
        /\ regseq' = [regseq EXCEPT !.call = SeqCall("get", kind, name),
                                    !.before = configmap,
                                    !.result = Get(configmap, kind, name)]
        /\ UNCHANGED nonSeqVars

\* get_orphans reads through _get_configmap as well
GetOrphansCall ==
    \E kind \in SeqKinds, expected_cr_names \in SUBSET SeqCrNames :
        /\ configmap' = AfterGetConfigMap(configmap)
        /\ regseq' = [regseq EXCEPT
                         !.call = <<[op |-> "get_orphans", kind |-> kind, name |-> "",
                                     expected |-> expected_cr_names]>>,
                         !.before = configmap,
                         !.result = GetOrphans(configmap, kind, expected_cr_names)]
        /\ UNCHANGED nonSeqVars

NextRegistry ==
    \/ RegisterCall
    \/ UnregisterCall
    \/ GetCall
    \/ GetOrphansCall

SpecRegistry == InitRegistry /\ [][NextRegistry]_vars

SeqLast == regseq.call[1]

\* get of every key returns what the map of the calls so far holds
RegistryIsMap ==
    \A kind \in SeqKinds, name \in SeqNames :
        Get(configmap, kind, name) = Held(regseq.records, kind, name)

\* the last call left every key other than its own as it was
OtherKeysKept ==
    regseq.call # <<>> =>
        \A kind \in SeqKinds, name \in SeqNames :
            (kind # SeqLast.kind \/ name # SeqLast.name)
                => Get(configmap, kind, name) = Get(regseq.before, kind, name)

\* the last get returned the record of its key
GetReturnsHeld ==
    (regseq.call # <<>> /\ SeqLast.op = "get")
        => regseq.result = Held(regseq.records, SeqLast.kind, SeqLast.name)

\* the last get_orphans returned exactly the records of the kind whose
\* cr_name is not expected
OrphansExact ==
    (regseq.call # <<>> /\ SeqLast.op = "get_orphans")
        => {[kind |-> SeqLast.kind, name |-> regseq.result[i].name,
             id |-> regseq.result[i].id, cr_name |-> regseq.result[i].cr_name]
               : i \in DOMAIN regseq.result}
           = {r \in regseq.records :
                 r.kind = SeqLast.kind /\ r.cr_name \notin SeqLast.expected}

\* the last call was an unregister of a key that was absent, or a
\* get_orphans
ReadOnlyCall ==
    /\ regseq.call # <<>>
    /\ \/ SeqLast.op = "get_orphans"
       \/ /\ SeqLast.op = "unregister"
          /\ Get(regseq.before, SeqLast.kind, SeqLast.name) = <<>>

MaxLosses == 2

\* the thread of the timer, and the thread of the other writer
TimerThread == "t1"

OtherThread == "t2"

\* the project the other writer's CR names
OtherProject == "b"

\* a timer that never comes to the federation step
FederationNeverDue(c, st) == FALSE

\* reconcile_project up to its federation step: phase Ready, the project
\* is there under the id of the status, and the spec has a federationRef
\* and role bindings with users
FederationDue(c, st) ==
    LET found == FindIn(st.rem, "projects", c.specName, 0)
    IN  /\ Phase(c.status) = "Ready"
        /\ found # {}
        /\ "projectId" \in DOMAIN c.status
        /\ \E r \in found : r.id = c.status["projectId"]
        /\ c.federationRef
        /\ c.users # <<>>

\* the mapping holds the rule of the CR
RulePresent ==
    \E i \in DOMAIN CurrentRules(mapping) :
        CurrentRules(mapping)[i] = generate_mapping_rule(cr.specName, cr.users, SsoDomain)

nonHealVars ==
    <<nextId, remote, cpVars, regVars, seq, ensVars, tdVars, clientVars, limVars,
      condVars, seqVars, runVars, gaugeVars>>

InitHeal ==
    /\ \E name \in ReconNames, users \in ReconcilerUserLists :
         LET p == EnsureProject(Cloud({}, 1), "a")
             m == AddProjectMapping(NoMapping, "a", users)
         IN  /\ cr = ProjectCR(name, FALSE, FALSE,
                               [phase |-> "Ready", projectId |-> p.ids.projectId,
                                groupId |-> p.ids.groupId])
                         @@ [federationRef |-> TRUE, users |-> users]
             /\ remote = p.st.rem
             /\ nextId = p.st.nid
             /\ mapping \in {m, AddProjectMapping(m, OtherProject, <<"u2">>)}
             /\ configmap = Register(NoConfigMap, "federation_mappings", "a", 40, name)
    /\ fed = [t \in Callers |-> NoFedCall]
    /\ fedClock = 0
    /\ seq = NoSeq
    /\ CpInit
    /\ RegIdle
    /\ ClientIdle
    /\ LimIdle
    /\ CondIdle
    /\ RegSeqIdle
    /\ RunIdle
    /\ GaugeIdle
    /\ EnsIdle
    /\ TdIdle

\* the timer fires: the checks of reconcile_project pass and
\* add_project_mapping reads the rules, drops the rule of its group and
\* appends its own
HealFetch ==
    /\ fed[TimerThread].pc # "write"
    /\ FederationDue(cr, Cloud(remote, nextId))
    /\ fed' = [fed EXCEPT ![TimerThread] =
            [pc |-> "write", project_name |-> cr.specName, users |-> cr.users,
             new_rules |-> NewRules(CurrentRules(mapping), cr.specName, cr.users),
             fetchedAt |-> fedClock, wroteAt |-> 0]]
    /\ UNCHANGED <<mapping, fedClock, configmap, cr>>
    /\ UNCHANGED nonHealVars

\* update_mapping(new_rules), then registry.register of the mapping
HealWrite ==
    /\ fed[TimerThread].pc = "write"
    /\ mapping' = UpdateMapping(mapping, fed[TimerThread].new_rules)
    /\ configmap' = Register(configmap, "federation_mappings", cr.specName, 40, cr.name)
    /\ fed' = [fed EXCEPT ![TimerThread].pc = "done", ![TimerThread].wroteAt = fedClock]
    /\ UNCHANGED <<fedClock, cr>>
    /\ UNCHANGED nonHealVars

\* the reconciler of another CR starts add_project_mapping
OtherFetch ==
    /\ fed[OtherThread].pc # "write"
    /\ fedClock < MaxLosses
    /\ \E users \in ReconcilerUserLists :
         fed' = [fed EXCEPT ![OtherThread] =
            [pc |-> "write", project_name |-> OtherProject, users |-> users,
             new_rules |-> NewRules(CurrentRules(mapping), OtherProject, users),
             fetchedAt |-> fedClock, wroteAt |-> 0]]
    /\ UNCHANGED <<mapping, fedClock, configmap, cr>>
    /\ UNCHANGED nonHealVars

\* and writes the rules it computed from what it had read
OtherWrite ==
    /\ fed[OtherThread].pc = "write"
    /\ mapping' = UpdateMapping(mapping, fed[OtherThread].new_rules)
    /\ fedClock' = fedClock + 1
    /\ fed' = [fed EXCEPT ![OtherThread].pc = "done", ![OtherThread].wroteAt = fedClock + 1]
    /\ UNCHANGED <<configmap, cr>>
    /\ UNCHANGED nonHealVars

\* the mapping is deleted out of band
MappingDeleted ==
    /\ fedClock < MaxLosses
    /\ mapping.exists
    /\ mapping' = NoMapping
    /\ fedClock' = fedClock + 1
    /\ UNCHANGED <<fed, configmap, cr>>
    /\ UNCHANGED nonHealVars

NextHeal ==
    \/ HealFetch
    \/ HealWrite
    \/ OtherFetch
    \/ OtherWrite
    \/ MappingDeleted

SpecHeal == InitHeal /\ [][NextHeal]_vars

\* kopf fires the timer every interval and a run of it comes to its end;
\* the other writer comes to the end of a call it has started
SpecHealFair ==
    /\ SpecHeal
    /\ WF_vars(HealFetch)
    /\ WF_vars(HealWrite)
    /\ WF_vars(OtherWrite)

\* C36: when the rule of a Ready project CR with a federationRef and
\* users is not in the mapping, it is in the mapping again later, with
\* no change of the spec
C36_RuleRestored == (~RulePresent) ~> RulePresent

\* the rule is gone, the others have made all their writes, and the
\* timer has not started its run yet
C36_Witness ==
    /\ ~RulePresent
    /\ fedClock = MaxLosses
    /\ fed[OtherThread].pc = "done"
    /\ fed[TimerThread].pc # "write"
    /\ cr.generation = cr.handled

\* ---------------------------------------------------------------------
\* SpecLostWrite: a managed Domain, Flavor or Image CR whose spec never
\* changes, its create handler and timers, and a concurrent registry
\* write that overwrites the record the create handler registered
\* ---------------------------------------------------------------------

\* the record of another CR of the same kind, whose writer had read the
\* blob before the record of this CR was in it
OtherRecordName == "f"

InitLostWrite ==
    /\ InitRecon
    /\ cr.kind \in RecordedKinds
    /\ ~cr.external

\* the status key that holds the remote id of a kind
IdKey(kind) ==
    CASE kind = "domains" -> "domainId"
      [] kind = "flavors" -> "flavorId"
      [] kind = "images"  -> "imageId"

\* the registry holds the record of the CR's resource
RecordIn(cm) ==
    LET resources == GetResources(cm, cr.kind)
    IN  /\ cr.specName \in DOMAIN resources
        /\ resources[cr.specName].cr_name = cr.name

\* a stale read-modify-write of the blob of the kind lands: its
\* resources were read before the CR's record was written
RecordOverwritten ==
    /\ RecordIn(configmap)
    /\ configmap' = SetResources(configmap, cr.kind,
                        DictPut(DictPop(GetResources(configmap, cr.kind), cr.specName),
                                OtherRecordName, Info(90, OtherRecordName)))
    /\ UNCHANGED <<cloudVars, cr>>
    /\ UNCHANGED nonReconVars

NextLostWrite ==
    \/ RemoteLost
    \/ RemoteAppears
    \/ CreateDomain
    \/ TimerDomain
    \/ CreateFlavor
    \/ TimerFlavor
    \/ CreateImage
    \/ PollImage
    \/ TimerImage
    \/ RecordOverwritten

SpecLostWrite == InitLostWrite /\ [][NextLostWrite]_vars

\* the CR's create has succeeded, it is Ready and nothing of its spec is
\* unhandled, and its record is not in the registry
ReadyWithoutRecord ==
    /\ cr.created
    /\ cr.handled = cr.generation
    /\ Phase(cr.status) = "Ready"
    /\ IdKey(cr.kind) \in DOMAIN cr.status
    /\ ~RecordIn(configmap)

\* what the runs that are due for such a CR leave behind: its timers
ReconcileOutcomes ==
    LET st == Cloud(remote, nextId)
    IN  CASE cr.kind = "domains" -> {reconcile_domain(cr, st, configmap)}
          [] cr.kind = "flavors" -> {reconcile_flavor(cr, st, configmap)}
          [] cr.kind = "images"  ->
                {reconcile_image(cr, st, configmap)}
                \cup {poll_image_status(cr, st, configmap, upload, sized) :
                         upload \in UploadStates, sized \in BOOLEAN}

\* C37: when the record of a Ready managed CR has been overwritten, the
\* next reconcile of the CR, with no spec change, registers it again
C37_LostRecordReapplied ==
    ReadyWithoutRecord => \A out \in ReconcileOutcomes : RecordIn(out.cm)


(***************************************************************************)
(* The order of the remote calls of one reconcile of a project: one        *)
(* network of the spec (ensure_network), its security groups               *)
(* (ensure_security_groups) and the federation mapping                     *)
(* (add_project_mapping), one remote call per step.  Any remote call may   *)
(* raise, which ends the handler; kopf runs it again from the start on the *)
(* remote as the failed run left it.                                       *)
(***************************************************************************)

\* handler runs of one CR
MaxAttempts == 2

\* the names a rule's remoteGroupName is drawn from: the groups a CR may
\* declare and a name no CR declares
OwnGroupNames == <<"g1", "g2">>

UnknownGroupName == "zz"

\* the rules of one group, each given by its remoteGroupName ("" for none)
RuleLists == {<<>>, <<"">>, <<"g1">>, <<"g2", UnknownGroupName>>}

\* spec.securityGroups
SgSpecLists ==
    {<<>>}
    \cup {<<[name |-> OwnGroupNames[1], rules |-> r]>> : r \in RuleLists}
    \cup {<<[name |-> OwnGroupNames[1], rules |-> r1],
            [name |-> OwnGroupNames[2], rules |-> r2]>> : r1 \in RuleLists, r2 \in RuleLists}

\* the rules in the order the second pass visits them
RECURSIVE SecondPass(_)
SecondPass(sg_specs) ==
    IF sg_specs = <<>>
    THEN <<>>
    ELSE [k \in 1..Len(Head(sg_specs).rules) |->
             [name |-> Head(sg_specs).name,
              remote_group_name |-> Head(sg_specs).rules[k]]]
         \o SecondPass(Tail(sg_specs))

\* a rule is created whatever its remote group
NeverSkipRule(remote_group_name, remote_group_id) == FALSE

\* if remote_group_name: ... if not remote_group_id: continue
SkipRule(remote_group_name, remote_group_id) ==
    remote_group_name # "" /\ remote_group_id = 0

\* the handler at the start of a run
StartRun(project_id, router, sg_specs, users, st, interfaces, rules, attempts) ==
    [pc |-> "network", project_id |-> project_id, router |-> router,
     sg_specs |-> sg_specs, users |-> users,
     st |-> st, interfaces |-> interfaces, rules |-> rules,
     network |-> 0, subnet |-> 0, router_id |-> 0,
     sg_name_to_id |-> [n \in {} |-> 0], i |-> 1, attempts |-> attempts]

\* sg_name_to_id.get(name)
GroupId(sg_name_to_id, name) ==
    IF name \in DOMAIN sg_name_to_id THEN sg_name_to_id[name] ELSE 0

\* the loops' exits and `if not users: return`: the next remote call
NextCall(r) ==
    LET a == IF r.pc = "groups" /\ r.i > Len(r.sg_specs)
             THEN [r EXCEPT !.pc = "rules", !.i = 1] ELSE r
        b == IF a.pc = "rules" /\ a.i > Len(SecondPass(a.sg_specs))
             THEN [a EXCEPT !.pc = "idp", !.i = 1] ELSE a
    IN  IF b.pc = "idp" /\ ~b.users THEN [b EXCEPT !.pc = "done"] ELSE b

nonRunVars ==
    <<configmap, nextId, remote, cpVars, regVars, fedVars, ensVars, reconVars, tdVars,
      clientVars, limVars, condVars, seqVars, gaugeVars>>

InitOrder ==
    /\ \E router \in BOOLEAN, sg_specs \in SgSpecLists, users \in BOOLEAN :
           reconciling = StartRun(1, router, sg_specs, users, Cloud({}, 2), {}, {}, 1)
    /\ GaugeIdle
    /\ RegSeqIdle
    /\ CondIdle
    /\ LimIdle
    /\ configmap = NoConfigMap
    /\ remote = {}
    /\ nextId = 1
    /\ CpInit
    /\ RegIdle
    /\ ClientIdle
    /\ FedIdle
    /\ EnsIdle
    /\ ReconIdle
    /\ TdIdle

\* network = client.get_network(name, project_id) or client.create_network(...)
EnsureNetworkCall ==
    /\ reconciling.pc = "network"
    /\ LET s1 == FindOrCreate(reconciling.st, "create_network", "networks", "net",
                              reconciling.project_id)
       IN  reconciling' = [reconciling EXCEPT !.st = s1, !.network = s1.id, !.pc = "subnet"]
    /\ UNCHANGED nonRunVars

\* subnet = client.get_subnet(subnet_name, network.id) or client.create_subnet(...)
EnsureSubnetCall ==
    /\ reconciling.pc = "subnet"
    /\ LET s1 == FindOrCreate(reconciling.st, "create_subnet", "subnets", "net-subnet",
                              reconciling.network)
       IN  reconciling' = NextCall([reconciling EXCEPT
                              !.st = s1, !.subnet = s1.id,
                              !.pc = IF reconciling.router THEN "router" ELSE "groups"])
    /\ UNCHANGED nonRunVars

\* if router_spec: router = client.get_router(...) or client.create_router(...)
EnsureRouterCall ==
    /\ reconciling.pc = "router"
    /\ LET s1 == FindOrCreate(reconciling.st, "create_router", "routers", "net-router",
                              reconciling.project_id)
       IN  reconciling' = [reconciling EXCEPT !.st = s1, !.router_id = s1.id,
                                              !.pc = "interface"]
    /\ UNCHANGED nonRunVars

\* client.add_router_interface(router.id, subnet.id); a conflict is swallowed
AddRouterInterface ==
    /\ reconciling.pc = "interface"
    /\ reconciling' = NextCall([reconciling EXCEPT
           !.interfaces = @ \cup {[router_id |-> reconciling.router_id,
                                   subnet_id |-> reconciling.subnet]},
           !.pc = "groups"])
    /\ UNCHANGED nonRunVars

\* first pass, one group: get or create it, sg_name_to_id[name] = sg_id
EnsureGroupCall ==
    /\ reconciling.pc = "groups"
    /\ LET name == reconciling.sg_specs[reconciling.i].name
           s1   == FindOrCreate(reconciling.st, "create_security_group", "security_groups",
                                name, reconciling.project_id)
       IN  reconciling' = NextCall([reconciling EXCEPT
               !.st = s1,
               !.sg_name_to_id = [n \in DOMAIN @ \cup {name} |->
                                     IF n = name THEN s1.id ELSE @[n]],
               !.i = @ + 1])
    /\ UNCHANGED nonRunVars

\* second pass, one rule: skipped when its remote group is not one of the
\* first pass, else created (a conflict is swallowed)
CreateRuleCall ==
    /\ reconciling.pc = "rules"
    /\ LET rule == SecondPass(reconciling.sg_specs)[reconciling.i]
           sg_id == reconciling.sg_name_to_id[rule.name]
           remote_group_id == IF rule.remote_group_name = "" THEN 0
                              ELSE GroupId(reconciling.sg_name_to_id, rule.remote_group_name)
       IN  reconciling' = NextCall([reconciling EXCEPT
               !.rules = IF SkipRule(rule.remote_group_name, remote_group_id)
                         THEN @
                         ELSE @ \cup {[security_group_id |-> sg_id,
                                       remote_group_name |-> rule.remote_group_name,
                                       remote_group_id |-> remote_group_id]},
               !.i = @ + 1])
    /\ UNCHANGED nonRunVars

\* self.ensure_identity_provider()
EnsureIdentityProvider ==
    /\ reconciling.pc = "idp"
    /\ reconciling' = [reconciling EXCEPT
           !.st = FindOrCreate(@, "create_identity_provider", "identity_providers", "idp", 0),
           !.pc = "mapping"]
    /\ UNCHANGED nonRunVars

\* self.update_mapping(new_rules): create_mapping when there is none
UpdateMappingCall ==
    /\ reconciling.pc = "mapping"
    /\ reconciling' = [reconciling EXCEPT
           !.st = FindOrCreate(@, "create_mapping", "mappings", "idp_oidc_mapping", 0),
           !.pc = "protocol"]
    /\ UNCHANGED nonRunVars

\* self.ensure_federation_protocol()
EnsureFederationProtocol ==
    /\ reconciling.pc = "protocol"
    /\ reconciling' = [reconciling EXCEPT
           !.st = FindOrCreate(@, "create_federation_protocol", "federation_protocols",
                               "openid", 0),
           !.pc = "done"]
    /\ UNCHANGED nonRunVars

\* a remote call raises: the handler ends where it is
RemoteCallRaises ==
    /\ reconciling.pc \notin {"done", "failed"}
    /\ reconciling' = [reconciling EXCEPT !.pc = "failed"]
    /\ UNCHANGED nonRunVars

\* kopf runs the handler again
RetryRun ==
    /\ reconciling.pc = "failed"
    /\ reconciling.attempts < MaxAttempts
    /\ reconciling' = StartRun(reconciling.project_id, reconciling.router,
                               reconciling.sg_specs, reconciling.users,
                               reconciling.st, reconciling.interfaces, reconciling.rules,
                               reconciling.attempts + 1)
    /\ UNCHANGED nonRunVars

NextOrder ==
    \/ EnsureNetworkCall
    \/ EnsureSubnetCall
    \/ EnsureRouterCall
    \/ AddRouterInterface
    \/ EnsureGroupCall
    \/ CreateRuleCall
    \/ EnsureIdentityProvider
    \/ UpdateMappingCall
    \/ EnsureFederationProtocol
    \/ RemoteCallRaises
    \/ RetryRun

SpecOrder == InitOrder /\ [][NextOrder]_vars

\* the remote holds a resource of that kind and id
HasId(rem, kind, id) == \E r \in rem : r.kind = kind /\ r.id = id

\* the groups spec.securityGroups declares
DeclaredGroups(sg_specs) == {sg_specs[k].name : k \in 1..Len(sg_specs)}

\* what a created resource depends on was on the remote before the call
SubnetAfterNetwork ==
    \A r \in reconciling'.st.rem \ reconciling.st.rem :
        r.kind = "subnets" => HasId(reconciling.st.rem, "networks", r.parent)

InterfaceAfterSubnetAndRouter ==
    \A x \in reconciling'.interfaces \ reconciling.interfaces :
        /\ HasId(reconciling.st.rem, "routers", x.router_id)
        /\ HasId(reconciling.st.rem, "subnets", x.subnet_id)

RuleAfterEveryGroup ==
    \A x \in reconciling'.rules \ reconciling.rules :
        /\ \A n \in DeclaredGroups(reconciling.sg_specs) :
               /\ FindIn(reconciling.st.rem, "security_groups", n, reconciling.project_id) # {}
               /\ n \in DOMAIN reconciling.sg_name_to_id
        /\ HasId(reconciling.st.rem, "security_groups", x.security_group_id)
        /\ x.remote_group_name # "" =>
               /\ x.remote_group_name \in DeclaredGroups(reconciling.sg_specs)
               /\ \E g \in FindIn(reconciling.st.rem, "security_groups",
                                  x.remote_group_name, reconciling.project_id) :
                      g.id = x.remote_group_id

ProtocolAfterProviderAndMapping ==
    \A r \in reconciling'.st.rem \ reconciling.st.rem :
        r.kind = "federation_protocols" =>
            /\ FindIn(reconciling.st.rem, "identity_providers", "idp", 0) # {}
            /\ FindIn(reconciling.st.rem, "mappings", "idp_oidc_mapping", 0) # {}

\* a run that returned has created every rule whose remote group is absent
\* or declared by the CR, and none whose remote group is not declared
RulesResolved ==
    reconciling.pc = "done" =>
        \A k \in 1..Len(SecondPass(reconciling.sg_specs)) :
            LET rule == SecondPass(reconciling.sg_specs)[k]
                made == {x \in reconciling.rules :
                            /\ x.security_group_id = reconciling.sg_name_to_id[rule.name]
                            /\ x.remote_group_name = rule.remote_group_name}
            IN  IF rule.remote_group_name \in {""} \cup DeclaredGroups(reconciling.sg_specs)
                THEN made # {}
                ELSE made = {}

\* C38: within one reconcile a subnet is created only when its network is
\* on the remote, a router interface only when its subnet and its router
\* are, a security-group rule only when every group the CR declares has
\* been ensured (a rule naming another group of the CR is created with that
\* group's id, a rule naming a group the CR does not declare is never
\* created), and the federation protocol only when the identity provider
\* and the mapping are
C38_DependenciesFirst ==
    /\ []RulesResolved
    /\ [][/\ SubnetAfterNetwork
          /\ InterfaceAfterSubnetAndRouter
          /\ RuleAfterEveryGroup
          /\ ProtocolAfterProviderAndMapping]_vars

\* a second run, after a failed one, returned: it added the router
\* interface, created a rule that names the other group of the CR, skipped
\* one that names an undeclared group, and the protocol is on the remote
C38_Witness ==
    /\ reconciling.pc = "done"
    /\ reconciling.attempts = 2
    /\ reconciling.interfaces # {}
    /\ Len(reconciling.sg_specs) = 2
    /\ \E x \in reconciling.rules :
           /\ x.remote_group_name = OwnGroupNames[2]
           /\ x.remote_group_id = reconciling.sg_name_to_id[OwnGroupNames[2]]
           /\ x.security_group_id = reconciling.sg_name_to_id[OwnGroupNames[1]]
    /\ \E k \in 1..Len(SecondPass(reconciling.sg_specs)) :
           SecondPass(reconciling.sg_specs)[k].remote_group_name = UnknownGroupName
    /\ FindIn(reconciling.st.rem, "federation_protocols", "openid", 0) # {}


(***************************************************************************)
(* apply_role_bindings (resources/role_binding.py): one pass over the role *)
(* bindings of a project with a user group; per binding whose role exists, *)
(* _sync_users_to_group with the users of that binding.                    *)
(***************************************************************************)

\* role bindings of one project
MaxBindings == 2

\* the user names a binding may list
BindingUsers == {"u1", "u2"}

\* binding: whether client.get_role finds its role, and its users
Bindings == [role_found : BOOLEAN, users : SUBSET BindingUsers]

RoleBindingLists ==
    UNION {[1..n -> Bindings] : n \in 1..MaxBindings}

\* _sync_users_to_group: the members after the adds and the removes;
\* client.get_user finds the users of the directory only
sync_users_to_group(current_usernames, desired_users, directory) ==
    LET added   == {u \in desired_users : u \notin current_usernames /\ u \in directory}
        removed == {u \in current_usernames : u \notin desired_users}
    IN  (current_usernames \cup added) \ removed

InitBindings ==
    /\ \E role_bindings \in RoleBindingLists, directory \in SUBSET BindingUsers :
           \E members \in SUBSET directory :
               reconciling = [pc |-> "bindings", role_bindings |-> role_bindings,
                              directory |-> directory, members |-> members, i |-> 1]
    /\ GaugeIdle
    /\ RegSeqIdle
    /\ CondIdle
    /\ LimIdle
    /\ configmap = NoConfigMap
    /\ remote = {}
    /\ nextId = 1
    /\ CpInit
    /\ RegIdle
    /\ ClientIdle
    /\ FedIdle
    /\ EnsIdle
    /\ ReconIdle
    /\ TdIdle

\* the position after binding i
AfterBinding(r) ==
    [r EXCEPT !.i = @ + 1,
              !.pc = IF r.i = Len(r.role_bindings) THEN "done" ELSE "bindings"]

\* role = client.get_role(role_name); if not role: continue
SkipBinding ==
    /\ reconciling.pc = "bindings"
    /\ ~reconciling.role_bindings[reconciling.i].role_found
    /\ reconciling' = AfterBinding(reconciling)
    /\ UNCHANGED nonRunVars

\* the body of the loop for a binding whose role exists
ApplyBinding ==
    /\ reconciling.pc = "bindings"
    /\ reconciling.role_bindings[reconciling.i].role_found
    /\ reconciling' = AfterBinding([reconciling EXCEPT
           !.members = sync_users_to_group(@, reconciling.role_bindings[reconciling.i].users,
                                           reconciling.directory)])
    /\ UNCHANGED nonRunVars

NextBindings ==
    \/ SkipBinding
    \/ ApplyBinding

SpecBindings == InitBindings /\ [][NextBindings]_vars

\* the users any binding lists
ListedUsers(role_bindings) ==
    UNION {role_bindings[k].users : k \in 1..Len(role_bindings)}

\* the role of every binding exists
EveryRoleFound(role_bindings) ==
    \A k \in 1..Len(role_bindings) : role_bindings[k].role_found

\* C39: when apply_role_bindings has returned for a project with one or
\* more role bindings, each with a role that exists, the members of the
\* project's user group are exactly the users listed in any binding that
\* exist in the user directory
C39_MembersAreListedUsers ==
    reconciling.pc = "done" /\ EveryRoleFound(reconciling.role_bindings) =>
        reconciling.members = ListedUsers(reconciling.role_bindings) \cap reconciling.directory


(***************************************************************************)
(* The reconcile_in_progress gauge of one CR kind.  kopf runs the create,  *)
(* update and delete handlers of the kind in worker threads; each handler  *)
(* increments the gauge when it starts and decrements it on its way out.   *)
(* The five kinds have the same handler structure and separate labels.     *)
(***************************************************************************)

\* handler invocations
MaxHandlers == 3

GaugeThreads == {"t1", "t2"}

HandlerOps == {"create", "update", "delete"}

\* how the body of a handler ends
HandlerOutcomes == {"success", "temporary_error", "permanent_error"}

IdleHandler == [pc |-> "idle", op |-> "none", has_id |-> FALSE]

nonGaugeVars ==
    <<configmap, nextId, remote, cpVars, regVars, fedVars, ensVars, reconVars, tdVars,
      clientVars, limVars, condVars, seqVars, runVars>>

InitGauge ==
    /\ inprogress = [gauge |-> 0, threads |-> [t \in GaugeThreads |-> IdleHandler],
                     handled |-> 0, outcome |-> "none"]
    /\ RunIdle
    /\ RegSeqIdle
    /\ CondIdle
    /\ LimIdle
    /\ configmap = NoConfigMap
    /\ remote = {}
    /\ nextId = 1
    /\ CpInit
    /\ RegIdle
    /\ ClientIdle
    /\ FedIdle
    /\ EnsIdle
    /\ ReconIdle
    /\ TdIdle

\* RECONCILE_IN_PROGRESS.labels(resource=...).inc() at the top of a handler;
\* has_id: the status holds the remote id
HandlerStarts(t) ==
    /\ inprogress.threads[t].pc = "idle"
    /\ inprogress.handled < MaxHandlers
    /\ \E op \in HandlerOps, has_id \in BOOLEAN :
           inprogress' = [inprogress EXCEPT
               !.gauge = @ + 1,
               !.handled = @ + 1,
               !.threads[t] = [pc |-> "body", op |-> op, has_id |-> has_id]]
    /\ UNCHANGED nonGaugeVars

\* delete handler, before its try: if not project_id: ...dec(); return
DeleteReturnsEarly(t) ==
    /\ inprogress.threads[t].pc = "body"
    /\ inprogress.threads[t].op = "delete"
    /\ ~inprogress.threads[t].has_id
    /\ inprogress' = [inprogress EXCEPT !.gauge = @ - 1, !.threads[t] = IdleHandler,
                                        !.outcome = "early_return"]
    /\ UNCHANGED nonGaugeVars

\* update handler, inside its try: if not project_id: ...dec()
UpdateDelegates(t) ==
    /\ inprogress.threads[t].pc = "body"
    /\ inprogress.threads[t].op = "update"
    /\ ~inprogress.threads[t].has_id
    /\ inprogress' = [inprogress EXCEPT !.gauge = @ - 1, !.threads[t].pc = "delegating"]
    /\ UNCHANGED nonGaugeVars

\* create_project(...) called by the update handler: its inc()
CreateStartsInUpdate(t) ==
    /\ inprogress.threads[t].pc = "delegating"
    /\ inprogress' = [inprogress EXCEPT !.gauge = @ + 1, !.threads[t].pc = "create"]
    /\ UNCHANGED nonGaugeVars

\* the finally of the create handler the update handler called; the update
\* handler goes on to `return` (or to its except clauses) inside its try
CreateEndsInUpdate(t) ==
    /\ inprogress.threads[t].pc = "create"
    /\ \E outcome \in HandlerOutcomes :
           inprogress' = [inprogress EXCEPT !.gauge = @ - 1, !.threads[t].pc = "return",
                                            !.outcome = outcome]
    /\ UNCHANGED nonGaugeVars

\* the finally of a handler: after its body, or after the return of the
\* update handler that delegated
HandlerFinally(t) ==
    /\ \/ /\ inprogress.threads[t].pc = "body"
          /\ inprogress.threads[t].op \in {"update", "delete"} => inprogress.threads[t].has_id
          /\ \E outcome \in HandlerOutcomes :
                 inprogress' = [inprogress EXCEPT !.gauge = @ - 1,
                                                  !.threads[t] = IdleHandler,
                                                  !.outcome = outcome]
       \/ /\ inprogress.threads[t].pc = "return"
          /\ inprogress' = [inprogress EXCEPT !.gauge = @ - 1, !.threads[t] = IdleHandler]
    /\ UNCHANGED nonGaugeVars

NextGauge ==
    \E t \in GaugeThreads :
        \/ HandlerStarts(t)
        \/ DeleteReturnsEarly(t)
        \/ UpdateDelegates(t)
        \/ CreateStartsInUpdate(t)
        \/ CreateEndsInUpdate(t)
        \/ HandlerFinally(t)

SpecGauge == InitGauge /\ [][NextGauge]_vars

\* the handlers kopf is executing
Executing == {t \in GaugeThreads : inprogress.threads[t].pc # "idle"}

\* C40: the reconcile_in_progress gauge of a kind equals the number of
\* handlers of that kind that are executing, and is never negative
C40_GaugeCountsHandlers ==
    /\ inprogress.gauge = Cardinality(Executing)
    /\ inprogress.gauge >= 0

=============================================================================
